---- MODULE Spec2Model ----
(***************************************************************************)
(* Model of the BCF (betty-fmt) recursive-descent parser, src/src/parser.c, *)
(* and of the parts of the AST formatter that consume its tree.            *)
(*                                                                         *)
(* The token array is the input.  Token pointers of the C code are token   *)
(* indices (0-based, as in the C code); the NULL token pointer is NoTok.   *)
(* Every C parse function is an operator from the parser record (the       *)
(* fields of struct Parser) to a result record [p, node]; every while loop *)
(* is a RECURSIVE operator.  The loop of parse_program is the state        *)
(* machine: one action per branch of the loop body.  A local variable of   *)
(* the C code is bound with With([x \in {e} |-> body]), which evaluates e   *)
(* once, as the assignment does.                                           *)
(***************************************************************************)
EXTENDS Integers, Sequences, FiniteSets, TLC

VARIABLES
    tokens,     \* parser->tokens: the token array, ending with EOF
    parser,     \* the fields of struct Parser (plus ghost fields steps, hang, recs)
    program,    \* the NODE_PROGRAM node built by parse_program
    pc,         \* position of parse_program, then of the formatter
    frame,      \* locals of parse_program live across its steps
    output,     \* what formatter_format has written: the strings emitted, in order
    symtab      \* a symbol table used on its own, and the last call made on it

vars == <<tokens, parser, program, pc, frame, output, symtab>>

-----------------------------------------------------------------------------
(* Bounds of the model *)

\* Longest free token run placed in a context
MaxLen == 3

\* Factor of the linear bound on cursor steps stated for a terminating parse
StepFactor == 3

\* Deepest chain of scopes of a symbol table used on its own
MaxScopes == 3

-----------------------------------------------------------------------------
(* Tokens *)

NoTok == 0 - 1

Lexeme(type) ==
    CASE type = "WHITESPACE" -> " "
      [] type = "NEWLINE" -> "\n"
      [] type = "COMMENT_LINE" -> "// c"
      [] type = "COMMENT_BLOCK" -> "/* c */"
      [] type = "PREPROCESSOR" -> "#define M"
      [] type = "INTEGER" -> "1"
      [] type = "IF" -> "if"
      [] type = "ELSE" -> "else"
      [] type = "WHILE" -> "while"
      [] type = "FOR" -> "for"
      [] type = "DO" -> "do"
      [] type = "SWITCH" -> "switch"
      [] type = "CASE" -> "case"
      [] type = "DEFAULT" -> "default"
      [] type = "BREAK" -> "break"
      [] type = "CONTINUE" -> "continue"
      [] type = "RETURN" -> "return"
      [] type = "TYPEDEF" -> "typedef"
      [] type = "STRUCT" -> "struct"
      [] type = "UNION" -> "union"
      [] type = "ENUM" -> "enum"
      [] type = "SIZEOF" -> "sizeof"
      [] type = "VOID" -> "void"
      [] type = "INT" -> "int"
      [] type = "LONG" -> "long"
      [] type = "DOUBLE" -> "double"
      [] type = "CONST" -> "const"
      [] type = "STATIC" -> "static"
      [] type = "PLUS" -> "+"
      [] type = "MINUS" -> "-"
      [] type = "STAR" -> "*"
      [] type = "SLASH" -> "/"
      [] type = "ASSIGN" -> "="
      [] type = "PLUS_ASSIGN" -> "+="
      [] type = "EQUAL" -> "=="
      [] type = "LESS" -> "<"
      [] type = "LOGICAL_AND" -> "&&"
      [] type = "LOGICAL_OR" -> "||"
      [] type = "LOGICAL_NOT" -> "!"
      [] type = "AMPERSAND" -> "&"
      [] type = "PIPE" -> "|"
      [] type = "CARET" -> "^"
      [] type = "LSHIFT" -> "<<"
      [] type = "INCREMENT" -> "++"
      [] type = "ARROW" -> "->"
      [] type = "DOT" -> "."
      [] type = "ELLIPSIS" -> "..."
      [] type = "QUESTION" -> "?"
      [] type = "COLON" -> ":"
      [] type = "SEMICOLON" -> ";"
      [] type = "COMMA" -> ","
      [] type = "LPAREN" -> "("
      [] type = "RPAREN" -> ")"
      [] type = "LBRACE" -> "{"
      [] type = "RBRACE" -> "}"
      [] type = "LBRACKET" -> "["
      [] type = "RBRACKET" -> "]"
      [] type = "EOF" -> ""
      [] OTHER -> "?"

T(type) == [type |-> type, lexeme |-> Lexeme(type)]

ID(name) == [type |-> "IDENTIFIER", lexeme |-> name]

\* a preprocessor directive, one token up to the end of its line
PP(text) == [type |-> "PREPROCESSOR", lexeme |-> text]

token_count == Len(tokens)

Tok(i) == tokens[i + 1]

Trivia == {"WHITESPACE", "NEWLINE", "COMMENT_LINE", "COMMENT_BLOCK"}

\* token->line: one more than the number of newline tokens before the token
LineOf(i) == 1 + Cardinality({j \in 0..(i - 1) : Tok(j).type = "NEWLINE"})

-----------------------------------------------------------------------------
(* AST nodes *)

NULL == [type |-> "NULL"]

\* blank_lines_before is not set by ast_node_create (malloc): 0 - 1 stands for
\* the indeterminate value until a caller assigns the field.
ast_node_create(type, token) ==
    [type |-> type, token |-> token, children |-> <<>>,
     leading_comments |-> <<>>, trailing_comments |-> <<>>,
     blank_lines_before |-> 0 - 1, data |-> <<>>,
     first |-> NoTok, last |-> NoTok]

ast_node_add_child(parent, child) ==
    IF parent.type = "NULL" \/ child.type = "NULL" THEN parent
    ELSE [parent EXCEPT !.children = Append(@, child)]

ast_node_add_leading_comment(node, comment) ==
    IF node.type = "NULL" \/ comment = NoTok THEN node
    ELSE [node EXCEPT !.leading_comments = Append(@, comment)]

ast_node_add_trailing_comment(node, comment) ==
    IF node.type = "NULL" \/ comment = NoTok THEN node
    ELSE [node EXCEPT !.trailing_comments = Append(@, comment)]

\* Ghost: the token extent [first, last) a parse function consumed for a node
Span(node, a, b) ==
    IF node.type = "NULL" THEN node ELSE [node EXCEPT !.first = a, !.last = b]

R(p, node) == [p |-> p, node |-> node]

\* With([x \in {e} |-> body]): body with x standing for e, a local of the C code
With(f) == f[CHOOSE v \in DOMAIN f : TRUE]

-----------------------------------------------------------------------------
(* Symbol table *)

(* A table is the chain of its scopes, its own first and then its parents,  *)
(* each scope the set of its symbols; the NULL table is the empty chain.    *)
(* The hash buckets only index a scope: a name is found by strcmp.          *)

PreseededTypedefs == {"size_t", "FILE", "va_list", "bool"}

NoSymbol == [name |-> "", kind |-> "NULL"]

\* no call made yet on the table used on its own
NoCall == [table |-> <<>>, op |-> "none", at |-> 0, name |-> "", kind |-> "NULL",
           found |-> NoSymbol]

symbol_table_create(parent) == <<{}>> \o parent

\* symbol_add that replaces the kind of a name the scope already binds
symbol_add_overwrite(table, name, kind) ==
    IF table = <<>> THEN table
    ELSE [table EXCEPT ![1] = {s \in @ : s.name # name}
                              \cup {[name |-> name, kind |-> kind]}]

\* symbol_add that drops the other symbols of the scope
symbol_add_retracting(table, name, kind) ==
    IF table = <<>> THEN table
    ELSE [table EXCEPT ![1] = {[name |-> name, kind |-> kind]}]

symbol_add(table, name, kind) ==
    IF table = <<>> THEN table
    ELSE IF \E sym \in table[1] : sym.name = name THEN table
    ELSE [table EXCEPT ![1] = @ \cup {[name |-> name, kind |-> kind]}]

\* symbol_lookup that looks in the given scope alone
symbol_lookup_local(table, name) ==
    IF table = <<>> THEN NoSymbol
    ELSE IF \E sym \in table[1] : sym.name = name
    THEN CHOOSE sym \in table[1] : sym.name = name
    ELSE NoSymbol

RECURSIVE symbol_lookup(_, _)
symbol_lookup(table, name) ==
    IF table = <<>> THEN NoSymbol
    ELSE IF \E sym \in table[1] : sym.name = name
    THEN CHOOSE sym \in table[1] : sym.name = name
    ELSE symbol_lookup(Tail(table), name)

symbol_is_typedef(table, name) == symbol_lookup(table, name).kind = "SYM_TYPEDEF"

-----------------------------------------------------------------------------
(* Cursor primitives *)

NoHang == [current |-> NoTok, steps |-> 0, error_count |-> 0]

is_at_end(p) ==
    p.current >= token_count \/ Tok(p.current).type = "EOF"

\* peek: index of the current token, NoTok at the end
peek(p) == IF is_at_end(p) THEN NoTok ELSE p.current

\* type of the token peek returns; "NONE" for the NULL token
PeekType(p) == IF is_at_end(p) THEN "NONE" ELSE Tok(p.current).type

PeekLexeme(p) == IF is_at_end(p) THEN "" ELSE Tok(p.current).lexeme

advance(p) ==
    IF is_at_end(p) THEN p
    ELSE [p EXCEPT !.current = @ + 1,
                   !.last_token_line =
                       IF Tok(p.current).type \notin {"WHITESPACE", "NEWLINE"}
                       THEN LineOf(p.current) ELSE @,
                   !.steps = @ + 1]

match(p, type) == PeekType(p) = type

\* parser->current = pos for a saved position; ghost: the assignment is logged
Rewind(p, pos) ==
    [p EXCEPT !.current = pos,
              !.rewinds = Append(@, [from |-> p.current, to |-> pos])]

\* expect: [p, token]; token is NoTok on a mismatch, which is counted
expect(p, type) ==
    IF PeekType(p) # type
    THEN [p |-> [p EXCEPT !.error_count = @ + 1, !.mismatches = @ + 1],
          token |-> NoTok]
    ELSE [p |-> advance(p), token |-> p.current]

add_pending_comment(p, comment) ==
    [p EXCEPT !.pending_comments = Append(@, comment)]

attach_pending_comments(p, node) ==
    IF node.type = "NULL" \/ Len(p.pending_comments) = 0 THEN R(p, node)
    ELSE R([p EXCEPT !.pending_comments = <<>>],
           [node EXCEPT !.leading_comments = @ \o p.pending_comments])

clear_pending_comments(p) == [p EXCEPT !.pending_comments = <<>>]

RECURSIVE skip_whitespace_loop(_, _)
skip_whitespace_loop(p, newline_count) ==
    IF is_at_end(p) THEN [p |-> p, n |-> newline_count]
    ELSE IF PeekType(p) = "WHITESPACE"
         THEN skip_whitespace_loop(advance(p), newline_count)
    ELSE IF PeekType(p) = "NEWLINE"
         THEN skip_whitespace_loop(advance(p), newline_count + 1)
    ELSE IF PeekType(p) \in {"COMMENT_LINE", "COMMENT_BLOCK"}
         THEN skip_whitespace_loop(advance(add_pending_comment(p, p.current)),
                                   newline_count)
    ELSE [p |-> p, n |-> newline_count]

\* skip_whitespace: [p, ret]; ret is the number of blank lines
skip_whitespace(p) ==
    With([r \in {skip_whitespace_loop([p EXCEPT !.whitespace_start = p.current], 0)} |->
       [p |-> r.p, ret |-> IF r.n > 1 THEN r.n - 1 ELSE 0]])

sw(p) == skip_whitespace(p).p

RECURSIVE collect_trailing_comments(_, _)
collect_trailing_comments(p, node) ==
    IF node.type = "NULL" \/ is_at_end(p) THEN R(p, node)
    ELSE IF PeekType(p) = "WHITESPACE"
         THEN collect_trailing_comments(advance(p), node)
    ELSE IF PeekType(p) \in {"COMMENT_LINE", "COMMENT_BLOCK"}
            /\ LineOf(p.current) = p.last_token_line
         THEN collect_trailing_comments(
                  advance(p), ast_node_add_trailing_comment(node, p.current))
    ELSE R(p, node)

RECURSIVE peek_ahead_from(_, _, _)
peek_ahead_from(pos, count, n) ==
    IF pos >= token_count THEN NoTok
    ELSE IF Tok(pos).type \notin Trivia
         THEN IF count = n THEN pos ELSE peek_ahead_from(pos + 1, count + 1, n)
    ELSE peek_ahead_from(pos + 1, count, n)

peek_ahead(p, n) == peek_ahead_from(p.current, 0, n)

AheadType(p, n) ==
    IF peek_ahead(p, n) = NoTok THEN "NONE" ELSE Tok(peek_ahead(p, n)).type

\* A faulty variant of looks_like_ptr_declaration that does not look at the
\* token after the second identifier.
looks_like_ptr_declaration_any_follower(p) ==
    /\ AheadType(p, 0) = "IDENTIFIER"
    /\ AheadType(p, 1) = "STAR"
    /\ AheadType(p, 2) = "IDENTIFIER"

looks_like_ptr_declaration(p) ==
    /\ AheadType(p, 0) = "IDENTIFIER"
    /\ AheadType(p, 1) = "STAR"
    /\ AheadType(p, 2) = "IDENTIFIER"
    /\ AheadType(p, 3) \in {"SEMICOLON", "COMMA", "ASSIGN", "LBRACKET"}

-----------------------------------------------------------------------------
(* Raw capture and recovery *)

RECURSIVE copy_lexemes(_, _)
copy_lexemes(i, end_index) ==
    IF i >= end_index THEN "" ELSE Tok(i).lexeme \o copy_lexemes(i + 1, end_index)

\* copy_token_text: "" stands for the NULL result
copy_token_text(start_index, end_index) ==
    With([s \in {IF start_index < 0 THEN 0 ELSE start_index} |->
       With([e \in {IF end_index > token_count THEN token_count ELSE end_index} |->
       IF s >= e THEN "" ELSE copy_lexemes(s, e)])])

\* A faulty variant of create_unparsed_node that copies from one token too
\* late: the captured text loses its first token.
create_unparsed_node_late(p, start_index, end_index) ==
    With([s \in {IF start_index < 0 THEN 0 ELSE start_index} |->
    With([e \in {IF end_index > token_count THEN token_count ELSE end_index} |->
    IF s >= e THEN NULL
    ELSE [ast_node_create("UNPARSED", s) EXCEPT
             !.data = [text |-> copy_lexemes(s + 1, e),
                       start_line |-> LineOf(s),
                       end_line |-> LineOf(e - 1)],
             !.first = s, !.last = e]])])

create_unparsed_node(p, start_index, end_index) ==
    With([s \in {IF start_index < 0 THEN 0 ELSE start_index} |->
       With([e \in {IF end_index > token_count THEN token_count ELSE end_index} |->
       IF s >= e THEN NULL
       ELSE [ast_node_create("UNPARSED", s) EXCEPT
                !.data = [text |-> copy_lexemes(s, e),
                          start_line |-> LineOf(s),
                          end_line |-> LineOf(e - 1)],
                !.first = s, !.last = e]])])

\* Ghost: every recovery is logged: the start index it was given, the cursor
\* at which its scan began, the cursor at which the scan stopped, the cursor it
\* returned with, and the text of the node it produced ("" for NULL).  The
\* caller adds the cursor at which its failed attempt began (NoteAttempt).
LogRecovery(p, kind, start_index, entry, scan_stop, node) ==
    [p EXCEPT !.recs = Append(@, [kind |-> kind, start |-> start_index,
                                  attempt |-> start_index,
                                  entry |-> entry, scan_stop |-> scan_stop,
                                  stop |-> p.current, at_end |-> is_at_end(p),
                                  errors_start |-> NoTok, errors_after |-> NoTok,
                                  text |-> IF node.type = "NULL" THEN ""
                                           ELSE node.data.text])]

\* Ghost: the cursor at which the attempt that was just recovered had begun
NoteAttempt(p, cursor) == [p EXCEPT !.recs[Len(p.recs)].attempt = cursor]

\* Ghost: the error counter at the start of the attempt that was just
\* recovered, and the counter the recovery site leaves
NoteErrors(p, start_errors) ==
    [p EXCEPT !.recs[Len(p.recs)].errors_start = start_errors,
              !.recs[Len(p.recs)].errors_after = p.error_count]

\* a recovery site that leaves the counter as the failed attempt left it
restore_errors_kept(p, start_errors) == p

\* parser->error_count = start_errors
restore_errors(p, start_errors) == [p EXCEPT !.error_count = start_errors]

RECURSIVE recover_top_level_scan(_, _)
recover_top_level_scan(p, brace_depth) ==
    IF is_at_end(p) THEN p
    ELSE IF PeekType(p) = "SEMICOLON" /\ brace_depth = 0 THEN advance(p)
    ELSE IF PeekType(p) = "LBRACE"
         THEN recover_top_level_scan(advance(p), brace_depth + 1)
    ELSE IF PeekType(p) = "RBRACE"
         THEN IF brace_depth = 0 THEN advance(p)
              ELSE IF brace_depth - 1 = 0 THEN advance(p)
              ELSE recover_top_level_scan(advance(p), brace_depth - 1)
    ELSE recover_top_level_scan(advance(p), brace_depth)

ForceProgress(p, start_index) ==
    IF p.current <= start_index /\ ~is_at_end(p) THEN advance(p) ELSE p

recover_top_level(p, start_index) ==
    With([s \in {IF start_index < 0 \/ start_index >= token_count
             THEN p.current ELSE start_index} |->
       With([scanned \in {recover_top_level_scan(p, 0)} |->
       With([q \in {ForceProgress(scanned, s)} |->
       With([node \in {create_unparsed_node(q, s, q.current)} |->
       R(LogRecovery(q, "top_level", s, p.current, scanned.current, node), node)])])])])

\* A faulty variant of the scan of recover_statement that runs past a newline
\* at brace depth zero.
RECURSIVE recover_statement_scan_past_newline(_, _)
recover_statement_scan_past_newline(p, brace_depth) ==
    IF is_at_end(p) THEN p
    ELSE IF PeekType(p) = "SEMICOLON" /\ brace_depth = 0 THEN advance(p)
    ELSE IF PeekType(p) = "LBRACE"
         THEN recover_statement_scan_past_newline(advance(p), brace_depth + 1)
    ELSE IF PeekType(p) = "RBRACE"
         THEN IF brace_depth = 0 THEN p
              ELSE IF brace_depth - 1 = 0 THEN advance(p)
              ELSE recover_statement_scan_past_newline(advance(p), brace_depth - 1)
    ELSE recover_statement_scan_past_newline(advance(p), brace_depth)

RECURSIVE recover_statement_scan(_, _)
recover_statement_scan(p, brace_depth) ==
    IF is_at_end(p) THEN p
    ELSE IF PeekType(p) = "SEMICOLON" /\ brace_depth = 0 THEN advance(p)
    ELSE IF PeekType(p) = "NEWLINE" /\ brace_depth = 0 THEN advance(p)
    ELSE IF PeekType(p) = "LBRACE"
         THEN recover_statement_scan(advance(p), brace_depth + 1)
    ELSE IF PeekType(p) = "RBRACE"
         THEN IF brace_depth = 0 THEN p
              ELSE IF brace_depth - 1 = 0 THEN advance(p)
              ELSE recover_statement_scan(advance(p), brace_depth - 1)
    ELSE recover_statement_scan(advance(p), brace_depth)

recover_statement(p, start_index) ==
    With([s \in {IF start_index < 0 \/ start_index >= token_count
             THEN p.current ELSE start_index} |->
       With([scanned \in {recover_statement_scan(p, 0)} |->
       With([q \in {ForceProgress(scanned, s)} |->
       With([node \in {create_unparsed_node(q, s, q.current)} |->
       R(LogRecovery(q, "statement", s, p.current, scanned.current, node), node)])])])])

RECURSIVE recover_enum_entry_scan(_, _, _)
recover_enum_entry_scan(p, brace_depth, paren_depth) ==
    IF is_at_end(p) THEN p
    ELSE IF PeekType(p) \in {"COMMA", "NEWLINE"}
            /\ brace_depth = 0 /\ paren_depth = 0 THEN advance(p)
    ELSE IF PeekType(p) = "RBRACE" /\ brace_depth = 0 /\ paren_depth = 0 THEN p
    ELSE IF PeekType(p) = "LBRACE"
         THEN recover_enum_entry_scan(advance(p), brace_depth + 1, paren_depth)
    ELSE IF PeekType(p) = "RBRACE" /\ brace_depth > 0
         THEN recover_enum_entry_scan(advance(p), brace_depth - 1, paren_depth)
    ELSE IF PeekType(p) = "LPAREN"
         THEN recover_enum_entry_scan(advance(p), brace_depth, paren_depth + 1)
    ELSE IF PeekType(p) = "RPAREN" /\ paren_depth > 0
         THEN recover_enum_entry_scan(advance(p), brace_depth, paren_depth - 1)
    ELSE recover_enum_entry_scan(advance(p), brace_depth, paren_depth)

recover_enum_entry(p, start_index) ==
    With([s \in {IF start_index < 0 \/ start_index >= token_count
             THEN p.current ELSE start_index} |->
       With([scanned \in {recover_enum_entry_scan(p, 0, 0)} |->
       With([q \in {ForceProgress(scanned, s)} |->
       With([node \in {create_unparsed_node(q, s, q.current)} |->
       R(LogRecovery(q, "enum_entry", s, p.current, scanned.current, node), node)])])])])

\* add_unparsed_child: [p, node]; node is the parent with the raw child added
add_unparsed_child(p, parent, start_index) ==
    With([r \in {recover_top_level(p, start_index)} |->
       With([raw \in {IF r.node.type = "NULL" THEN NULL
               ELSE [r.node EXCEPT !.blank_lines_before = 0]} |->
       R(clear_pending_comments(r.p), ast_node_add_child(parent, raw))])])

-----------------------------------------------------------------------------
(* Token classes *)

TypeKeywords ==
    {"INT", "VOID", "CHAR_KW", "LONG", "SHORT", "FLOAT_KW", "DOUBLE", "UNSIGNED",
     "SIGNED", "CONST", "STATIC", "STRUCT", "TYPEDEF", "EXTERN"}

is_type_keyword(type) == type \in TypeKeywords

token_allowed_in_type(type) ==
    type \in {"WHITESPACE", "NEWLINE", "COMMENT_LINE", "COMMENT_BLOCK",
              "IDENTIFIER", "STAR", "CONST", "VOLATILE", "UNSIGNED", "SIGNED",
              "SHORT", "LONG", "INT", "VOID", "CHAR_KW", "STRUCT", "ENUM",
              "UNION", "STATIC", "EXTERN", "REGISTER", "AUTO", "LBRACKET",
              "RBRACKET", "INTEGER", "TYPEDEF"}

AssignFamily ==
    {"ASSIGN", "PLUS_ASSIGN", "MINUS_ASSIGN", "STAR_ASSIGN", "SLASH_ASSIGN",
     "PERCENT_ASSIGN", "AMPERSAND_ASSIGN", "PIPE_ASSIGN", "CARET_ASSIGN",
     "LSHIFT_ASSIGN", "RSHIFT_ASSIGN"}

\* A faulty variant of get_precedence that gives additive and multiplicative
\* operators the same level.
get_precedence_flat(type) ==
    CASE type \in AssignFamily -> 1
      [] type = "LOGICAL_OR" -> 2
      [] type = "LOGICAL_AND" -> 3
      [] type = "PIPE" -> 4
      [] type = "CARET" -> 5
      [] type = "AMPERSAND" -> 6
      [] type \in {"EQUAL", "NOT_EQUAL"} -> 7
      [] type \in {"LESS", "GREATER", "LESS_EQUAL", "GREATER_EQUAL"} -> 8
      [] type \in {"LSHIFT", "RSHIFT"} -> 9
      [] type \in {"PLUS", "MINUS", "STAR", "SLASH", "PERCENT"} -> 10
      [] OTHER -> 0

get_precedence(type) ==
    CASE type \in AssignFamily -> 1
      [] type = "LOGICAL_OR" -> 2
      [] type = "LOGICAL_AND" -> 3
      [] type = "PIPE" -> 4
      [] type = "CARET" -> 5
      [] type = "AMPERSAND" -> 6
      [] type \in {"EQUAL", "NOT_EQUAL"} -> 7
      [] type \in {"LESS", "GREATER", "LESS_EQUAL", "GREATER_EQUAL"} -> 8
      [] type \in {"LSHIFT", "RSHIFT"} -> 9
      [] type \in {"PLUS", "MINUS"} -> 10
      [] type \in {"STAR", "SLASH", "PERCENT"} -> 11
      [] OTHER -> 0

is_binary_operator(type) == get_precedence(type) > 0

is_unary_operator(type) ==
    type \in {"LOGICAL_NOT", "TILDE", "PLUS", "MINUS", "STAR", "AMPERSAND",
              "INCREMENT", "DECREMENT"}

RECURSIVE type_in_parens_scan(_, _, _, _)
type_in_parens_scan(p, i, saw_content, prev_non_ws) ==
    IF i >= token_count
    THEN [i |-> i, looks_like_type |-> TRUE, saw_content |-> saw_content]
    ELSE IF Tok(i).type = "RPAREN"
    THEN [i |-> i, looks_like_type |-> TRUE, saw_content |-> saw_content]
    ELSE IF ~token_allowed_in_type(Tok(i).type)
    THEN [i |-> i, looks_like_type |-> FALSE, saw_content |-> saw_content]
    ELSE IF Tok(i).type \in Trivia
    THEN type_in_parens_scan(p, i + 1, saw_content, prev_non_ws)
    ELSE IF Tok(i).type = "IDENTIFIER"
            /\ prev_non_ws \notin {"STRUCT", "ENUM", "UNION"}
            /\ ~symbol_is_typedef(p.symbols, Tok(i).lexeme)
    THEN [i |-> i, looks_like_type |-> FALSE, saw_content |-> TRUE]
    ELSE type_in_parens_scan(p, i + 1, TRUE, Tok(i).type)

\* looks_like_type_in_parens: [ok, closing_index]
looks_like_type_in_parens(p, start_index) ==
    IF start_index < 0 \/ start_index >= token_count
    THEN [ok |-> FALSE, closing_index |-> NoTok]
    ELSE With([s \in {type_in_parens_scan(p, start_index, FALSE, "NONE")} |->
            IF ~s.looks_like_type \/ ~s.saw_content \/ s.i >= token_count
            THEN [ok |-> FALSE, closing_index |-> NoTok]
            ELSE IF Tok(s.i).type # "RPAREN"
            THEN [ok |-> FALSE, closing_index |-> NoTok]
            ELSE [ok |-> TRUE, closing_index |-> s.i]])

\* the scan of parse_unary over the parenthesized content of sizeof
RECURSIVE sizeof_scan(_)
sizeof_scan(i) ==
    IF i >= token_count THEN [i |-> i, looks_like_type |-> FALSE]
    ELSE IF Tok(i).type = "RPAREN" THEN [i |-> i, looks_like_type |-> TRUE]
    ELSE IF ~token_allowed_in_type(Tok(i).type)
         THEN [i |-> i, looks_like_type |-> FALSE]
    ELSE sizeof_scan(i + 1)

-----------------------------------------------------------------------------
(* Expressions *)

RECURSIVE parse_primary(_), parse_postfix(_), parse_unary(_),
          parse_expression_precedence(_, _), call_arguments(_, _),
          postfix_loop(_, _), precedence_loop(_, _, _), type_expr_tokens(_, _),
          skip_to_comma_or_rparen(_)

parse_expression(p) == parse_expression_precedence(p, 0)

skip_to_comma_or_rparen(p) ==
    IF is_at_end(p) \/ match(p, "COMMA") \/ match(p, "RPAREN") THEN p
    ELSE skip_to_comma_or_rparen(advance(p))

\* the argument loop shared by parse_primary and parse_postfix
call_arguments(p, call) ==
    IF is_at_end(p) \/ match(p, "RPAREN") THEN R(p, call)
    ELSE With([arg \in {parse_expression(p)} |->
            With([p1 \in {IF arg.node.type # "NULL" THEN arg.p
                   ELSE skip_to_comma_or_rparen(arg.p)} |->
            With([p2 \in {sw(p1)} |->
            With([p3 \in {IF match(p2, "COMMA") THEN advance(p2) ELSE p2} |->
            call_arguments(sw(p3), ast_node_add_child(call, arg.node))])])])])

type_expr_tokens(p, toks) ==
    IF is_at_end(p) \/ match(p, "COMMA") \/ match(p, "RPAREN")
    THEN [p |-> p, toks |-> toks]
    ELSE type_expr_tokens(sw(advance(p)), Append(toks, p.current))

parse_primary(p) ==
    With([p0 \in {sw(p)} |->
       With([type \in {PeekType(p0)} |->
       With([token \in {peek(p0)} |->
       IF type = "NONE" THEN R(p0, NULL)
       ELSE IF type \in {"INTEGER", "FLOAT", "STRING", "CHAR"}
       THEN R(advance(p0), ast_node_create("LITERAL", token))
       ELSE IF is_type_keyword(type) \/ type \in {"STRUCT", "ENUM", "UNION"}
       THEN With([r \in {type_expr_tokens(p0, <<>>)} |->
               R(r.p, [ast_node_create("TYPE_EXPR", r.toks[1]) EXCEPT
                          !.data = [return_type_tokens |-> r.toks]])])
       ELSE IF type = "IDENTIFIER"
       THEN With([node \in {ast_node_create("IDENTIFIER", token)} |->
               With([p1 \in {sw(advance(p0))} |->
               IF match(p1, "LPAREN")
               THEN With([a \in {call_arguments(sw(advance(p1)),
                                            ast_node_create("CALL", token))} |->
                       R(expect(a.p, "RPAREN").p, a.node)])
               ELSE IF match(p1, "LBRACKET")
               THEN With([e \in {parse_expression(advance(p1))} |->
                       With([arr \in {ast_node_add_child(
                                   ast_node_add_child(
                                       ast_node_create("ARRAY_ACCESS", NoTok), node),
                                   e.node)} |->
                       R(expect(sw(e.p), "RBRACKET").p, arr)])])
               ELSE R(p1, node)])])
       ELSE IF type = "LPAREN"
       THEN With([p1 \in {sw(advance(p0))} |->
               With([type_start \in {p1.current} |->
               With([lt \in {looks_like_type_in_parens(p1, type_start)} |->
               IF lt.ok
               THEN With([type_text \in {IF lt.closing_index > type_start
                            THEN copy_token_text(type_start, lt.closing_index)
                            ELSE ""} |->
                       With([cast_node \in {[ast_node_create("CAST", type_start) EXCEPT
                                !.data = [text |-> type_text]]} |->
                       With([p2 \in {sw(expect([p1 EXCEPT !.current = lt.closing_index],
                                        "RPAREN").p)} |->
                       With([u \in {parse_unary(p2)} |->
                       R(u.p, ast_node_add_child(cast_node, u.node))])])])])
               ELSE With([e \in {parse_expression([p1 EXCEPT !.current = type_start])} |->
                       R(expect(sw(e.p), "RPAREN").p, e.node)])])])])
       ELSE R(p0, NULL)])])])

postfix_loop(p, node) ==
    With([p0 \in {sw(p)} |->
       With([type \in {PeekType(p0)} |->
       IF type = "LBRACKET"
       THEN With([e \in {parse_expression(sw(advance(p0)))} |->
               With([arr \in {ast_node_add_child(
                           ast_node_add_child(
                               ast_node_create("ARRAY_ACCESS", NoTok), node),
                           e.node)} |->
               postfix_loop(expect(sw(e.p), "RBRACKET").p, arr)])])
       ELSE IF type = "LPAREN"
       THEN With([a \in {call_arguments(
                         sw(advance(p0)),
                         ast_node_add_child(ast_node_create("CALL", NoTok), node))} |->
               postfix_loop(expect(a.p, "RPAREN").p, a.node)])
       ELSE IF type \in {"DOT", "ARROW"}
       THEN With([x \in {expect(sw(advance(p0)), "IDENTIFIER")} |->
               IF x.token = NoTok THEN R(x.p, NULL)
               ELSE postfix_loop(
                        x.p,
                        ast_node_add_child(
                            [ast_node_create("MEMBER_ACCESS", x.token) EXCEPT
                                !.data = [uses_arrow |-> (type = "ARROW")]],
                            node))])
       ELSE IF type \in {"INCREMENT", "DECREMENT"}
       THEN postfix_loop(
                advance(p0),
                ast_node_add_child(
                    [ast_node_create("UNARY", p0.current) EXCEPT
                        !.data = [is_postfix |-> TRUE]],
                    node))
       ELSE R(p0, node)])])

parse_postfix(p) ==
    With([r \in {parse_primary(p)} |->
       IF r.node.type = "NULL" THEN r ELSE postfix_loop(r.p, r.node)])

parse_unary(p) ==
    With([p0 \in {sw(p)} |->
       With([type \in {PeekType(p0)} |->
       With([token \in {peek(p0)} |->
       IF type = "NONE" THEN R(p0, NULL)
       ELSE IF type = "SIZEOF"
       THEN With([node \in {ast_node_create("SIZEOF", token)} |->
               With([p1 \in {sw(advance(p0))} |->
               IF match(p1, "LPAREN")
               THEN With([p2 \in {sw(advance(p1))} |->
                       With([saved_pos \in {p2.current} |->
                       With([s \in {sizeof_scan(p2.current)} |->
                       IF s.looks_like_type
                       THEN R(expect([p2 EXCEPT !.current = s.i], "RPAREN").p,
                              [node EXCEPT !.data =
                                  [text |-> copy_token_text(saved_pos, s.i)]])
                       ELSE With([e \in {parse_expression(
                                         [p2 EXCEPT !.current = saved_pos])} |->
                               R(expect(sw(e.p), "RPAREN").p,
                                 ast_node_add_child(node, e.node))])])])])
               ELSE With([u \in {parse_unary(p1)} |->
                       R(u.p, ast_node_add_child(node, u.node))])])])
       ELSE IF is_unary_operator(type)
       THEN With([u \in {parse_unary(advance(p0))} |->
               R(u.p, ast_node_add_child(ast_node_create("UNARY", token), u.node))])
       ELSE parse_postfix(p0)])])])

\* A faulty variant of the loop of parse_expression_precedence that takes a
\* single operand as the else-branch of a ternary.
RECURSIVE precedence_loop_else_operand(_, _, _)
precedence_loop_else_operand(p, left, min_precedence) ==
    IF is_at_end(p) THEN R(p, left)
    ELSE With([type \in {PeekType(p)} |->
            With([op_token \in {peek(p)} |->
            IF type = "QUESTION"
            THEN With([t \in {parse_expression(sw(advance(p)))} |->
                    With([c \in {expect(sw(t.p), "COLON")} |->
                    IF c.token = NoTok THEN R(c.p, NULL)
                    ELSE With([e \in {parse_unary(sw(c.p))} |->
                            With([ternary \in {ast_node_add_child(
                                     ast_node_add_child(
                                         ast_node_add_child(
                                             ast_node_create("TERNARY", op_token),
                                             left),
                                         t.node),
                                     e.node)} |->
                            precedence_loop_else_operand(sw(e.p), ternary, min_precedence)])])])])
            ELSE IF ~is_binary_operator(type) THEN R(p, left)
            ELSE IF get_precedence(type) < min_precedence THEN R(p, left)
            ELSE With([p1 \in {sw(advance(p))} |->
                    With([r \in {IF type \in AssignFamily
                          THEN parse_expression_precedence(p1, get_precedence(type))
                          ELSE parse_expression_precedence(p1,
                                                           get_precedence(type) + 1)} |->
                    IF r.node.type = "NULL" THEN R(r.p, NULL)
                    ELSE precedence_loop_else_operand(
                             sw(r.p),
                             ast_node_add_child(
                                 ast_node_add_child(
                                     ast_node_create("BINARY", op_token), left),
                                 r.node),
                             min_precedence)])])])])

precedence_loop(p, left, min_precedence) ==
    IF is_at_end(p) THEN R(p, left)
    ELSE With([type \in {PeekType(p)} |->
            With([op_token \in {peek(p)} |->
            IF type = "QUESTION"
            THEN With([t \in {parse_expression(sw(advance(p)))} |->
                    With([c \in {expect(sw(t.p), "COLON")} |->
                    IF c.token = NoTok THEN R(c.p, NULL)
                    ELSE With([e \in {parse_expression_precedence(sw(c.p),
                                                              min_precedence)} |->
                            With([ternary \in {ast_node_add_child(
                                     ast_node_add_child(
                                         ast_node_add_child(
                                             ast_node_create("TERNARY", op_token),
                                             left),
                                         t.node),
                                     e.node)} |->
                            precedence_loop(sw(e.p), ternary, min_precedence)])])])])
            ELSE IF ~is_binary_operator(type) THEN R(p, left)
            ELSE IF get_precedence(type) < min_precedence THEN R(p, left)
            ELSE With([p1 \in {sw(advance(p))} |->
                    With([r \in {IF type \in AssignFamily
                          THEN parse_expression_precedence(p1, get_precedence(type))
                          ELSE parse_expression_precedence(p1,
                                                           get_precedence(type) + 1)} |->
                    IF r.node.type = "NULL" THEN R(r.p, NULL)
                    ELSE precedence_loop(
                             sw(r.p),
                             ast_node_add_child(
                                 ast_node_add_child(
                                     ast_node_create("BINARY", op_token), left),
                                 r.node),
                             min_precedence)])])])])

parse_expression_precedence(p, min_precedence) ==
    With([l \in {parse_unary(p)} |->
       IF l.node.type = "NULL" THEN l
       ELSE precedence_loop(sw(l.p), l.node, min_precedence)])

-----------------------------------------------------------------------------
(* Initializers and declarations *)

\* Ghost: an iteration of the element loop of parse_initializer that ends with
\* the parser where it began repeats forever; the parser at that point is kept
\* in p.hang (the first one only).
MarkHang(p) ==
    IF p.hang.current # NoTok THEN p
    ELSE [p EXCEPT !.hang = [current |-> p.current, steps |-> p.steps,
                             error_count |-> p.error_count]]

RECURSIVE parse_initializer(_), initializer_elements(_, _)

initializer_elements(p, init) ==
    IF is_at_end(p) \/ match(p, "RBRACE") THEN R(p, init)
    ELSE With([elem \in {parse_initializer(p)} |->
            With([p1 \in {sw(elem.p)} |->
            With([p2 \in {IF match(p1, "COMMA") THEN sw(advance(p1)) ELSE p1} |->
            IF p2.current = p.current
            THEN R(MarkHang(p2), init)
            ELSE initializer_elements(p2, ast_node_add_child(init, elem.node))])])])

parse_initializer(p) ==
    With([p0 \in {sw(p)} |->
       IF match(p0, "LBRACE")
       THEN With([r \in {initializer_elements(
                         sw(advance(p0)), ast_node_create("INIT_LIST", peek(p0)))} |->
               R(IF match(r.p, "RBRACE") THEN advance(r.p) ELSE r.p, r.node)])
       ELSE parse_expression(p0)])

RECURSIVE func_ptr_params(_, _, _)
func_ptr_params(p, paren_depth, toks) ==
    IF is_at_end(p) THEN [p |-> p, toks |-> toks]
    ELSE IF PeekType(p) = "RPAREN" /\ paren_depth - 1 = 0
    THEN [p |-> p, toks |-> toks]
    ELSE func_ptr_params(
             sw(advance(p)),
             IF PeekType(p) = "LPAREN" THEN paren_depth + 1
             ELSE IF PeekType(p) = "RPAREN" THEN paren_depth - 1
             ELSE paren_depth,
             Append(toks, p.current))

parse_func_ptr_decl(p, type_tokens) ==
    IF ~match(p, "LPAREN") THEN R(p, NULL)
    ELSE With([p1 \in {sw(advance(p))} |->
            IF ~match(p1, "STAR") THEN R(p1, NULL)
            ELSE With([n \in {expect(sw(advance(p1)), "IDENTIFIER")} |->
                    IF n.token = NoTok THEN R(n.p, NULL)
                    ELSE With([p2 \in {sw(n.p)} |->
                            IF ~match(p2, "RPAREN") THEN R(p2, NULL)
                            ELSE With([p3 \in {sw(advance(p2))} |->
                                    IF ~match(p3, "LPAREN") THEN R(p3, NULL)
                                    ELSE With([r \in {func_ptr_params(sw(advance(p3)),
                                                                  1, <<>>)} |->
                                            With([p4 \in {IF match(r.p, "RPAREN")
                                                   THEN advance(r.p) ELSE r.p} |->
                                            R(p4,
                                              [ast_node_create("FUNC_PTR",
                                                               type_tokens[1])
                                               EXCEPT !.data =
                                                 [return_type_tokens |-> type_tokens,
                                                  name_token |-> n.token,
                                                  param_tokens |-> r.toks]])])])])])])])

\* a run of tokens whose type is in kinds, each followed by skip_whitespace
RECURSIVE take_while(_, _, _)
take_while(p, kinds, toks) ==
    IF PeekType(p) \in kinds
    THEN take_while(sw(advance(p)), kinds, Append(toks, p.current))
    ELSE [p |-> p, toks |-> toks]

\* the compound-type loop of parse_var_declaration
RECURSIVE type_keyword_run(_, _)
type_keyword_run(p, toks) ==
    IF ~is_type_keyword(PeekType(p)) THEN [p |-> p, toks |-> toks]
    ELSE With([p1 \in {sw(advance(p))} |->
            With([t1 \in {Append(toks, p.current)} |->
            IF PeekType(p) \in {"STRUCT", "ENUM"} /\ match(p1, "IDENTIFIER")
            THEN type_keyword_run(sw(advance(p1)), Append(t1, p1.current))
            ELSE type_keyword_run(p1, t1)])])

\* the type prefix of parse_var_declaration: [p, toks, ok]
var_decl_type(p) ==
    IF is_type_keyword(PeekType(p))
    THEN With([r \in {type_keyword_run(p, <<>>)} |->
            IF match(r.p, "IDENTIFIER")
               /\ symbol_is_typedef(r.p.symbols, PeekLexeme(r.p))
            THEN [p |-> sw(advance(r.p)), toks |-> Append(r.toks, r.p.current),
                  ok |-> TRUE]
            ELSE [p |-> r.p, toks |-> r.toks, ok |-> TRUE]])
    ELSE IF match(p, "IDENTIFIER")
            /\ (symbol_is_typedef(p.symbols, PeekLexeme(p))
                \/ looks_like_ptr_declaration(p))
    THEN [p |-> sw(advance(p)), toks |-> <<p.current>>, ok |-> TRUE]
    ELSE [p |-> p, toks |-> <<>>, ok |-> FALSE]

\* array brackets: `[` tokens-until-`]` `]`, repeated
RECURSIVE array_brackets(_, _), array_size(_, _)
array_size(p, toks) ==
    IF is_at_end(p) \/ match(p, "RBRACKET") THEN [p |-> p, toks |-> toks]
    ELSE array_size(sw(advance(p)), Append(toks, p.current))

array_brackets(p, toks) ==
    IF ~match(p, "LBRACKET") THEN [p |-> p, toks |-> toks]
    ELSE With([r \in {array_size(sw(advance(p)), Append(toks, p.current))} |->
            IF match(r.p, "RBRACKET")
            THEN array_brackets(sw(advance(r.p)), Append(r.toks, r.p.current))
            ELSE array_brackets(sw(r.p), r.toks)])

\* the type tokens copied for an extra variable: those before the first `*`
RECURSIVE base_type_tokens(_)
base_type_tokens(toks) ==
    IF toks = <<>> THEN <<>>
    ELSE IF Tok(Head(toks)).type = "STAR" THEN <<>>
    ELSE <<Head(toks)>> \o base_type_tokens(Tail(toks))

\* the comma loop of parse_var_declaration: [p, extras]
RECURSIVE extra_vars_loop(_, _, _)
extra_vars_loop(p, type_tokens, extras) ==
    IF ~match(p, "COMMA") THEN [p |-> p, extras |-> extras]
    ELSE With([s \in {take_while(sw(advance(p)), {"STAR"}, <<>>)} |->
            With([n \in {expect(s.p, "IDENTIFIER")} |->
            IF n.token = NoTok THEN [p |-> n.p, extras |-> extras]
            ELSE With([a \in {array_brackets(sw(n.p), <<>>)} |->
                    With([i \in {IF match(a.p, "ASSIGN")
                          THEN With([e \in {parse_expression(advance(a.p))} |->
                                  R(sw(e.p), e.node)])
                          ELSE R(a.p, NULL)} |->
                    extra_vars_loop(
                        sw(i.p), type_tokens,
                        Append(extras,
                               [type_tokens |->
                                    base_type_tokens(type_tokens) \o s.toks,
                                name_token |-> n.token,
                                array_tokens |-> a.toks,
                                init_expr |-> i.node]))])])])])

parse_var_declaration(p) ==
    With([p0 \in {sw(p)} |->
       With([type_token \in {peek(p0)} |->
       With([ty \in {var_decl_type(p0)} |->
       IF type_token = NoTok \/ ~ty.ok THEN R(p0, NULL)
       ELSE
       With([q \in {take_while(ty.p, {"STAR", "CONST", "VOLATILE"}, ty.toks)} |->
          With([saved_pos \in {q.p.current} |->
           \* look ahead for the (*name) pattern: current++, skip_whitespace
          With([la \in {sw([q.p EXCEPT !.current = @ + 1])} |->
          IF match(q.p, "LPAREN") /\ match(la, "STAR")
          THEN With([fp \in {parse_func_ptr_decl(
                             Rewind(la, saved_pos),
                             q.toks)} |->
                  R(expect(sw(fp.p), "SEMICOLON").p, fp.node)])
          ELSE
          With([p1 \in {IF match(q.p, "LPAREN")
                    THEN Rewind(la, saved_pos)
                    ELSE q.p} |->
             With([n \in {expect(p1, "IDENTIFIER")} |->
             IF n.token = NoTok THEN R(n.p, NULL)
             ELSE
             With([a \in {array_brackets(sw(n.p), <<>>)} |->
                With([i \in {IF match(a.p, "ASSIGN")
                      THEN parse_initializer(sw(advance(a.p)))
                      ELSE R(a.p, NULL)} |->
                With([x \in {extra_vars_loop(sw(i.p), q.toks, <<>>)} |->
                With([node \in {ast_node_add_child(
                             [ast_node_create("VAR_DECL", type_token) EXCEPT
                                 !.data = [type_tokens |-> q.toks,
                                           name_token |-> n.token,
                                           array_tokens |-> a.toks,
                                           extra_vars |-> x.extras,
                                           init_expr |-> i.node]],
                             i.node)} |->
                R(expect(x.p, "SEMICOLON").p, node)])])])])])])])])])])])])

-----------------------------------------------------------------------------
(* struct, enum, union and typedef definitions *)

\* the member loop shared by parse_struct_definition and parse_union_definition:
\* [p, node]; node is NULL when a member could not even be captured raw
RECURSIVE member_loop(_, _)
member_loop(p, node) ==
    IF is_at_end(p) \/ match(p, "RBRACE") THEN R(p, node)
    ELSE With([p0 \in {sw(p)} |->
            IF match(p0, "RBRACE") THEN R(p0, node)
            ELSE With([member_start \in {p0.current} |->
                    With([member_errors \in {p0.error_count} |->
                    With([m \in {parse_var_declaration(p0)} |->
                    IF m.node.type # "NULL" /\ m.p.error_count = member_errors
                    THEN member_loop(m.p, ast_node_add_child(node, m.node))
                    ELSE With([raw \in {recover_statement(
                                        restore_errors(m.p, member_errors),
                                        member_start)} |->
                            IF raw.node.type # "NULL"
                            THEN member_loop(NoteErrors(raw.p, p0.error_count),
                                             ast_node_add_child(node, raw.node))
                            ELSE R(NoteErrors(raw.p, p0.error_count), NULL)])])])])])

\* the body of parse_struct_definition, which parse_union_definition repeats
struct_or_union_definition(p) ==
    With([start_errors \in {p.error_count} |->
       With([p0 \in {sw(advance(p))} |->
       With([named \in {match(p0, "IDENTIFIER")} |->
       With([p1 \in {IF named THEN sw(advance(p0)) ELSE p0} |->
       With([node \in {ast_node_create("STRUCT", IF named THEN p0.current ELSE NoTok)} |->
       IF ~match(p1, "LBRACE") THEN R(p1, node)
       ELSE With([r \in {member_loop(sw(advance(p1)), node)} |->
               IF r.node.type = "NULL" \/ ~match(r.p, "RBRACE")
               THEN R(restore_errors(r.p, start_errors), NULL)
               ELSE R(advance(r.p), r.node)])])])])])])

parse_struct_definition(p) == struct_or_union_definition(p)

parse_union_definition(p) == struct_or_union_definition(p)

\* the value tokens after `=` of an enum entry
RECURSIVE enum_value_tokens(_, _)
enum_value_tokens(p, enum_val) ==
    IF is_at_end(p) \/ match(p, "COMMA") \/ match(p, "RBRACE") THEN R(p, enum_val)
    ELSE enum_value_tokens(
             sw(advance(p)),
             IF Len(enum_val.children) = 0
                /\ (match(p, "INTEGER") \/ match(p, "IDENTIFIER"))
             THEN ast_node_add_child(enum_val, ast_node_create("LITERAL", peek(p)))
             ELSE enum_val)

\* if (match(parser, TOK_COMMA)) { advance(parser); skip_whitespace(parser); }
skip_comma(p) == IF match(p, "COMMA") THEN sw(advance(p)) ELSE p

\* the entry loop of parse_enum_definition: [p, node]
RECURSIVE enum_entries(_, _)
enum_entries(p, node) ==
    IF is_at_end(p) \/ match(p, "RBRACE") THEN R(p, node)
    ELSE With([p0 \in {sw(p)} |->
            With([entry_start \in {p0.current} |->
            With([entry_errors \in {p0.error_count} |->
            IF match(p0, "RBRACE") THEN R(p0, node)
            ELSE IF match(p0, "IDENTIFIER")
            THEN With([p1 \in {sw(advance(p0))} |->
                    With([v \in {IF match(p1, "ASSIGN")
                          THEN enum_value_tokens(
                                   sw(advance(p1)),
                                   ast_node_create("ENUM_VALUE", p0.current))
                          ELSE R(p1, ast_node_create("ENUM_VALUE", p0.current))} |->
                    IF v.p.error_count = entry_errors
                    THEN enum_entries(skip_comma(v.p),
                                      ast_node_add_child(node, v.node))
                    ELSE With([raw \in {recover_enum_entry(v.p, entry_start)} |->
                            With([p2 \in {NoteErrors(
                                              restore_errors(raw.p, entry_errors),
                                              p0.error_count)} |->
                            IF raw.node.type # "NULL"
                            THEN enum_entries(skip_comma(p2),
                                              ast_node_add_child(node, raw.node))
                            ELSE R(p2, NULL)])])])])
            ELSE With([raw \in {recover_enum_entry(p0, entry_start)} |->
                    IF raw.node.type # "NULL"
                    THEN enum_entries(skip_comma(NoteErrors(raw.p, p0.error_count)),
                                      ast_node_add_child(node, raw.node))
                    ELSE R(NoteErrors(raw.p, p0.error_count), node)])])])])

parse_enum_definition(p) ==
    With([start_errors \in {p.error_count} |->
       With([p0 \in {sw(advance(p))} |->
       With([named \in {match(p0, "IDENTIFIER")} |->
       With([p1 \in {IF named THEN sw(advance(p0)) ELSE p0} |->
       With([node \in {ast_node_create("ENUM", IF named THEN p0.current ELSE NoTok)} |->
       IF ~match(p1, "LBRACE") THEN R(p1, node)
       ELSE With([r \in {enum_entries(sw(advance(p1)), node)} |->
               IF r.node.type = "NULL" THEN R(r.p, NULL)
               ELSE IF ~match(r.p, "RBRACE")
               THEN R(restore_errors(r.p, start_errors), NULL)
               ELSE R(advance(r.p), r.node)])])])])])])

\* the regular loop of parse_typedef: [p, toks, alias]
RECURSIVE typedef_tokens(_, _)
typedef_tokens(p, toks) ==
    IF is_at_end(p) \/ match(p, "SEMICOLON")
    THEN [p |-> p, toks |-> toks, alias |-> NoTok]
    ELSE With([p1 \in {sw(advance(p))} |->
            IF match(p, "IDENTIFIER") /\ match(p1, "SEMICOLON")
            THEN [p |-> p1, toks |-> toks, alias |-> p.current]
            ELSE typedef_tokens(p1, Append(toks, p.current))])

\* registration of the alias at the end of parse_typedef
register_typedef(p, node) ==
    IF node.token # NoTok
    THEN [p EXCEPT !.symbols = symbol_add(@, Tok(node.token).lexeme, "SYM_TYPEDEF")]
    ELSE p

\* the end of parse_typedef: the `;` and the registration of the alias
typedef_finish(p, node) ==
    With([e \in {expect(sw(p), "SEMICOLON")} |->
       R(register_typedef(e.p, node), node)])

\* the regular (not function pointer) tail of parse_typedef
typedef_regular(p, node, base_tokens) ==
    With([t \in {typedef_tokens(p, base_tokens)} |->
       typedef_finish(t.p, [node EXCEPT !.token = t.alias,
                                        !.data = [base_type_tokens |-> t.toks]])])

parse_typedef(p) ==
    With([p0 \in {sw(advance(p))} |->
       With([node \in {ast_node_create("TYPEDEF", NoTok)} |->
       IF PeekType(p0) \in {"STRUCT", "ENUM", "UNION"}
       THEN With([inner \in {IF match(p0, "STRUCT") THEN parse_struct_definition(p0)
                         ELSE IF match(p0, "ENUM") THEN parse_enum_definition(p0)
                         ELSE parse_union_definition(p0)} |->
               With([p1 \in {sw(inner.p)} |->
               With([n1 \in {ast_node_add_child(node, inner.node)} |->
               IF match(p1, "IDENTIFIER")
               THEN typedef_finish(advance(p1), [n1 EXCEPT !.token = p1.current])
               ELSE typedef_finish(p1, n1)])])])
       ELSE With([k \in {take_while(p0, TypeKeywords, <<>>)} |->
               With([s \in {take_while(k.p, {"STAR"}, k.toks)} |->
               With([saved_pos \in {s.p.current} |->
               With([la \in {sw(advance(s.p))} |->
               With([fp \in {parse_func_ptr_decl(Rewind(la, saved_pos), s.toks)} |->
               IF match(s.p, "LPAREN")
               THEN IF match(la, "STAR")
                    THEN IF fp.node.type # "NULL"
                         THEN With([n1 \in {ast_node_add_child(
                                            [node EXCEPT !.token =
                                                 fp.node.data.name_token],
                                            fp.node)} |->
                                 R(expect(sw(register_typedef(fp.p, n1)),
                                          "SEMICOLON").p, n1)])
                         ELSE typedef_regular(Rewind(fp.p, saved_pos), node, s.toks)
                    ELSE typedef_regular(Rewind(la, saved_pos), node, s.toks)
               ELSE typedef_regular(s.p, node, s.toks)])])])])])])])

-----------------------------------------------------------------------------
(* Statements *)

RECURSIVE parse_statement(_), parse_block(_), block_statements(_, _),
          parse_if_statement(_), parse_while_statement(_),
          parse_for_statement(_), for_comma_loop(_, _), for_clause(_, _, _),
          parse_switch_statement(_), switch_body(_, _),
          case_statements(_, _, _), parse_do_while_statement(_)

parse_if_statement(p) ==
    With([l \in {expect(sw(advance(p)), "LPAREN")} |->
       IF l.token = NoTok THEN R(l.p, NULL)
       ELSE With([condition \in {parse_expression(l.p)} |->
               With([r \in {expect(sw(condition.p), "RPAREN")} |->
               IF r.token = NoTok THEN R(r.p, NULL)
               ELSE With([then_branch \in {parse_statement(sw(r.p))} |->
                       With([node \in {ast_node_add_child(
                                    ast_node_add_child(
                                        ast_node_create("IF", NoTok),
                                        condition.node),
                                    then_branch.node)} |->
                       With([p1 \in {sw(then_branch.p)} |->
                       IF match(p1, "ELSE")
                       THEN With([else_branch \in {parse_statement(sw(advance(p1)))} |->
                               R(else_branch.p,
                                 ast_node_add_child(node, else_branch.node))])
                       ELSE R(p1, node)])])])])])])

parse_while_statement(p) ==
    With([l \in {expect(sw(advance(p)), "LPAREN")} |->
       IF l.token = NoTok THEN R(l.p, NULL)
       ELSE With([condition \in {parse_expression(l.p)} |->
               With([r \in {expect(sw(condition.p), "RPAREN")} |->
               IF r.token = NoTok THEN R(r.p, NULL)
               ELSE With([body \in {parse_statement(sw(r.p))} |->
                       R(body.p,
                         ast_node_add_child(
                             ast_node_add_child(ast_node_create("WHILE", NoTok),
                                                condition.node),
                             body.node))])])])])

\* the comma operator loops of parse_for_statement
for_comma_loop(p, node) ==
    IF ~match(p, "COMMA") THEN R(p, node)
    ELSE With([e \in {parse_expression(sw(advance(p)))} |->
            for_comma_loop(sw(e.p), ast_node_add_child(node, e.node))])

\* one clause of the for header: empty, or expressions separated by commas
for_clause(p, node, stop) ==
    IF match(p, stop) THEN R(p, node)
    ELSE With([e \in {parse_expression(p)} |->
            for_comma_loop(sw(e.p), ast_node_add_child(node, e.node))])

parse_for_statement(p) ==
    With([l \in {expect(sw(advance(p)), "LPAREN")} |->
       IF l.token = NoTok THEN R(l.p, NULL)
       ELSE With([init \in {for_clause(sw(l.p), ast_node_create("FOR", NoTok),
                                   "SEMICOLON")} |->
               With([p1 \in {sw(expect(sw(init.p), "SEMICOLON").p)} |->
               With([condition \in {IF match(p1, "SEMICOLON") THEN R(p1, init.node)
                    ELSE With([e \in {parse_expression(p1)} |->
                            R(e.p, ast_node_add_child(init.node, e.node))])} |->
               With([p2 \in {sw(expect(sw(condition.p), "SEMICOLON").p)} |->
               With([increment \in {for_clause(p2, condition.node, "RPAREN")} |->
               With([p3 \in {sw(expect(sw(increment.p), "RPAREN").p)} |->
               With([body \in {parse_statement(p3)} |->
               R(body.p, ast_node_add_child(increment.node, body.node))])])])])])])])])

case_statements(p, case_node, stops) ==
    IF is_at_end(p) \/ PeekType(p) \in stops THEN R(p, case_node)
    ELSE With([stmt \in {parse_statement(p)} |->
            case_statements(sw(stmt.p), ast_node_add_child(case_node, stmt.node),
                            stops)])

switch_body(p, node) ==
    IF is_at_end(p) \/ match(p, "RBRACE") THEN R(p, node)
    ELSE With([p0 \in {sw(p)} |->
            With([token \in {peek(p0)} |->
            IF token = NoTok THEN R(p0, node)
            ELSE IF match(p0, "CASE")
            THEN With([case_val \in {parse_expression(sw(advance(p0)))} |->
                    With([p1 \in {sw(expect(sw(case_val.p), "COLON").p)} |->
                    With([c \in {case_statements(
                              p1,
                              ast_node_add_child(ast_node_create("CASE", token),
                                                 case_val.node),
                              {"CASE", "DEFAULT", "RBRACE"})} |->
                    switch_body(c.p, ast_node_add_child(node, c.node))])])])
            ELSE IF match(p0, "DEFAULT")
            THEN With([p1 \in {sw(expect(sw(advance(p0)), "COLON").p)} |->
                    With([c \in {case_statements(p1, ast_node_create("CASE", token),
                                          {"CASE", "RBRACE"})} |->
                    switch_body(c.p, ast_node_add_child(node, c.node))])])
            ELSE switch_body(advance(p0), node)])])

parse_switch_statement(p) ==
    With([l \in {expect(sw(advance(p)), "LPAREN")} |->
       IF l.token = NoTok THEN R(l.p, NULL)
       ELSE With([expr \in {parse_expression(l.p)} |->
               With([r \in {expect(sw(expr.p), "RPAREN")} |->
               IF r.token = NoTok THEN R(r.p, NULL)
               ELSE With([b \in {expect(sw(r.p), "LBRACE")} |->
                       IF b.token = NoTok THEN R(b.p, NULL)
                       ELSE With([s \in {switch_body(
                                         sw(b.p),
                                         ast_node_add_child(
                                             ast_node_create("SWITCH", NoTok),
                                             expr.node))} |->
                               R(expect(s.p, "RBRACE").p, s.node)])])])])])

parse_do_while_statement(p) ==
    With([body \in {parse_statement(sw(advance(p)))} |->
       With([w \in {expect(sw(body.p), "WHILE")} |->
       IF w.token = NoTok THEN R(w.p, NULL)
       ELSE With([l \in {expect(sw(w.p), "LPAREN")} |->
               IF l.token = NoTok THEN R(l.p, NULL)
               ELSE With([condition \in {parse_expression(l.p)} |->
                       With([r \in {expect(sw(condition.p), "RPAREN")} |->
                       IF r.token = NoTok THEN R(r.p, NULL)
                       ELSE R(expect(sw(r.p), "SEMICOLON").p,
                              ast_node_add_child(
                                  ast_node_add_child(
                                      ast_node_create("DO_WHILE", NoTok),
                                      body.node),
                                  condition.node))])])])])])

block_statements(p, block) ==
    IF is_at_end(p) \/ match(p, "RBRACE") THEN R(p, block)
    ELSE With([w \in {skip_whitespace(p)} |->
            IF match(w.p, "RBRACE") THEN R(w.p, block)
            ELSE With([stmt \in {parse_statement(w.p)} |->
                    With([a \in {attach_pending_comments(stmt.p, stmt.node)} |->
                    IF stmt.node.type = "NULL"
                    THEN block_statements(stmt.p, block)
                    ELSE block_statements(
                             a.p,
                             ast_node_add_child(
                                 block,
                                 [a.node EXCEPT !.blank_lines_before =
                                      IF w.ret > 0 THEN 1 ELSE 0]))])])])

parse_block(p) ==
    With([l \in {expect(sw(p), "LBRACE")} |->
       IF l.token = NoTok THEN R(l.p, NULL)
       ELSE With([r \in {block_statements(sw(l.p), ast_node_create("BLOCK", NoTok))} |->
               With([e \in {expect(sw(r.p), "RBRACE")} |->
               R(e.p, [r.node EXCEPT !.data = [closing_brace |-> e.token]])])])])

\* return, break and continue of parse_statement
jump_statement(p, kind) ==
    With([node \in {ast_node_create(kind, peek(p))} |->
       With([p1 \in {sw(advance(p))} |->
       IF kind # "RETURN" \/ match(p1, "SEMICOLON")
       THEN With([e \in {expect(sw(p1), "SEMICOLON")} |->
               R(e.p, IF e.token = NoTok THEN NULL ELSE node)])
       ELSE With([expr \in {parse_expression(p1)} |->
               IF expr.node.type = "NULL" THEN R(sw(expr.p), NULL)
               ELSE With([e \in {expect(sw(expr.p), "SEMICOLON")} |->
                       R(e.p, IF e.token = NoTok THEN NULL
                              ELSE ast_node_add_child(node, expr.node))])])])])

\* the expression statement of parse_statement
expression_statement(p) ==
    With([expr \in {parse_expression(p)} |->
       IF expr.node.type = "NULL" THEN R(expr.p, NULL)
       ELSE With([e \in {expect(sw(expr.p), "SEMICOLON")} |->
               R(e.p, IF e.token = NoTok THEN NULL
                      ELSE ast_node_add_child(ast_node_create("EXPR_STMT", NoTok),
                                              expr.node))])])

\* Ghost: for a statement that begins with an identifier, the position of
\* the identifier, the typedef names registered at that moment, and whether
\* parse_statement hands the statement to parse_var_declaration.
NoteRoute(p) ==
    IF PeekType(p) # "IDENTIFIER" THEN p
    ELSE [p EXCEPT !.routes = Append(@,
             [at |-> p.current, symbols |-> p.symbols,
              declaration |-> \/ symbol_is_typedef(p.symbols, PeekLexeme(p))
                              \/ looks_like_ptr_declaration(p)])]

parse_statement(p) ==
    With([statement_start \in {IF p.whitespace_start < 0 \/ p.whitespace_start >= token_count
            THEN p.current
            ELSE IF p.whitespace_start > p.current THEN p.current
            ELSE p.whitespace_start} |->
       With([start_errors \in {p.error_count} |->
       With([p0 \in {sw(p)} |->
       With([type \in {PeekType(p0)} |->
       With([saved_comments \in {p0.pending_comments} |->
       With([p1 \in {NoteRoute([p0 EXCEPT !.pending_comments = <<>>])} |->
       With([r \in {CASE type = "IF" -> parse_if_statement(p1)
               [] type = "WHILE" -> parse_while_statement(p1)
               [] type = "FOR" -> parse_for_statement(p1)
               [] type = "SWITCH" -> parse_switch_statement(p1)
               [] type = "DO" -> parse_do_while_statement(p1)
               [] type \in {"RETURN", "BREAK", "CONTINUE"} ->
                      jump_statement(p1, type)
               [] type = "LBRACE" -> parse_block(p1)
               [] type = "TYPEDEF" -> parse_typedef(p1)
               [] OTHER ->
                      IF is_type_keyword(type)
                         \/ (type = "IDENTIFIER"
                             /\ (symbol_is_typedef(p1.symbols, PeekLexeme(p1))
                                 \/ looks_like_ptr_declaration(p1)))
                      THEN parse_var_declaration(p1)
                      ELSE expression_statement(p1)} |->
       IF peek(p0) = NoTok THEN R(p0, NULL)
       ELSE IF r.node.type = "NULL" \/ r.p.error_count > start_errors
       THEN With([raw \in {recover_statement(
                           restore_errors(r.p, start_errors),
                           statement_start)} |->
               R(clear_pending_comments(
                     NoteErrors(NoteAttempt(raw.p, p.current), p.error_count)),
                 raw.node)])
       ELSE collect_trailing_comments(
                r.p,
                Span([r.node EXCEPT !.leading_comments = @ \o saved_comments],
                     p0.current, r.p.current))])])])])])])])

-----------------------------------------------------------------------------
(* Functions *)

RECURSIVE skip_gnu_attributes(_), attribute_parens(_, _)
attribute_parens(p, depth) ==
    IF is_at_end(p) \/ depth <= 0 THEN p
    ELSE attribute_parens(advance(p),
                          IF match(p, "LPAREN") THEN depth + 1
                          ELSE IF match(p, "RPAREN") THEN depth - 1
                          ELSE depth)

skip_gnu_attributes(p) ==
    IF is_at_end(p) \/ ~match(p, "IDENTIFIER") \/ PeekLexeme(p) # "__attribute__"
    THEN p
    ELSE With([p1 \in {sw(advance(p))} |->
            IF ~match(p1, "LPAREN") THEN skip_gnu_attributes(p1)
            ELSE skip_gnu_attributes(sw(attribute_parens(sw(advance(p1)), 1)))])

\* the array suffix of a parameter name
RECURSIVE parameter_brackets(_, _)
parameter_brackets(p, toks) ==
    IF ~match(p, "LBRACKET") THEN [p |-> p, toks |-> toks]
    ELSE With([p1 \in {sw(advance(p))} |->
            With([t1 \in {Append(toks, p.current)} |->
            IF match(p1, "RBRACKET")
            THEN parameter_brackets(sw(advance(p1)), Append(t1, p1.current))
            ELSE parameter_brackets(sw(p1), t1)])])

\* the token loop of parse_parameter: [p, toks, name]
RECURSIVE parameter_tokens(_, _)
parameter_tokens(p, toks) ==
    IF is_at_end(p) \/ match(p, "COMMA") \/ match(p, "RPAREN")
    THEN [p |-> p, toks |-> toks, name |-> NoTok]
    ELSE IF match(p, "IDENTIFIER")
            /\ AheadType(p, 1) \in {"NONE", "COMMA", "RPAREN", "LBRACKET"}
    THEN With([b \in {parameter_brackets(sw(advance(p)), toks)} |->
            [p |-> b.p, toks |-> b.toks, name |-> p.current]])
    ELSE parameter_tokens(sw(advance(p)), Append(toks, p.current))

parse_parameter(p) ==
    With([p0 \in {sw(p)} |->
       IF match(p0, "ELLIPSIS")
       THEN R(advance(p0), ast_node_create("PARAM", p0.current))
       ELSE IF peek(p0) = NoTok THEN R(p0, NULL)
       ELSE With([r \in {parameter_tokens(p0, <<>>)} |->
               IF Len(r.toks) = 0 /\ r.name = NoTok THEN R(r.p, NULL)
               ELSE R(r.p, [ast_node_create("PARAM", r.name) EXCEPT
                               !.data = [return_type_tokens |-> r.toks]])])])

\* the parameter loop of parse_function: [p, params]
RECURSIVE function_params(_, _)
function_params(p, params) ==
    IF is_at_end(p) \/ match(p, "RPAREN") THEN [p |-> p, params |-> params]
    ELSE With([r \in {parse_parameter(p)} |->
            With([p1 \in {sw(r.p)} |->
            With([p2 \in {IF match(p1, "COMMA") THEN sw(advance(p1)) ELSE p1} |->
            function_params(p2, IF r.node.type = "NULL" THEN params
                                ELSE Append(params, r.node))])])])

\* A faulty variant of the rewind of parse_function that puts the cursor back
\* to the start of the file instead of the start of the attempt.
function_rewind_to_origin(p, start_pos) == Rewind(p, 0)

\* parser->current = start_pos; return (NULL): "this is not a function"
function_rewind(p, start_pos) == Rewind(p, start_pos)

parse_function(p) ==
    With([p0 \in {sw(p)} |->
       With([start_pos \in {p0.current} |->
       With([m \in {take_while(p0, {"UNSIGNED", "SIGNED", "STATIC", "CONST"}, <<>>)} |->
       IF PeekType(m.p) \notin {"INT", "VOID", "CHAR_KW", "LONG", "SHORT",
                                "FLOAT_KW", "DOUBLE", "STRUCT", "ENUM",
                                "IDENTIFIER"}
       THEN R(function_rewind(m.p, start_pos), NULL)
       ELSE
       With([w \in {take_while(sw(advance(m.p)), {"LONG", "INT", "DOUBLE"},
                           Append(m.toks, m.p.current))} |->
          With([n \in {IF Tok(w.toks[Len(w.toks)]).type \in {"STRUCT", "ENUM"}
                   /\ match(w.p, "IDENTIFIER")
                THEN [p |-> sw(advance(w.p)), toks |-> Append(w.toks, w.p.current)]
                ELSE w} |->
          With([s \in {take_while(n.p, {"STAR"}, n.toks)} |->
          With([p1 \in {sw(advance(s.p))} |->
          IF ~match(s.p, "IDENTIFIER") THEN R(function_rewind(s.p, start_pos), NULL)
          ELSE IF ~match(p1, "LPAREN") THEN R(function_rewind(p1, start_pos), NULL)
          ELSE
          With([f \in {attach_pending_comments(
                       p1, ast_node_create("FUNCTION", s.p.current))} |->
             With([ps \in {function_params(sw(advance(f.p)), <<>>)} |->
             With([p2 \in {skip_gnu_attributes(sw(advance(ps.p)))} |->
             With([func \in {[f.node EXCEPT !.data = [return_type_tokens |-> s.toks,
                                               params |-> ps.params]]} |->
             IF ~match(ps.p, "RPAREN") THEN R(function_rewind(ps.p, start_pos), NULL)
             ELSE IF match(p2, "SEMICOLON") THEN R(advance(p2), func)
             ELSE With([body \in {parse_block(p2)} |->
                     R(body.p, ast_node_add_child(func, body.node))])])])])])])])])])])])])

-----------------------------------------------------------------------------
(* parse_program: the state machine *)

parser_create ==
    [current |-> 0, error_count |-> 0, whitespace_start |-> 0,
     symbols |-> <<{[name |-> n, kind |-> "SYM_TYPEDEF"] : n \in PreseededTypedefs}>>, pending_comments |-> <<>>,
     last_token_line |-> 0,      \* not set by parser_create; written before read
     steps |-> 0, spins |-> 0, hang |-> NoHang, recs |-> <<>>, rewinds |-> <<>>,
     mismatches |-> 0, routes |-> <<>>,
     round_one |-> NULL]         \* history: the tree of the run before this one

\* the head of one iteration of the loop of parse_program
Iter == skip_whitespace(parser)

\* A faulty variant of the flag that never records a blank line.
blank_flag_never(blank_lines) == 0

blank_flag(blank_lines) == IF blank_lines > 0 THEN 1 ELSE 0

\* Installs the outcome of a step.  A step that entered the endless element
\* loop of parse_initializer never returns: the parser stays where the loop
\* spins and nothing is added to the tree.
Finish(p, prog, next, fr) ==
    IF p.hang.current # NoTok
    THEN /\ parser' = [parser EXCEPT !.current = p.hang.current,
                                     !.error_count = p.hang.error_count,
                                     !.steps = p.hang.steps,
                                     !.hang = p.hang]
         /\ pc' = "initializer_loop"
         /\ UNCHANGED <<tokens, program, frame, output, symtab>>
    ELSE /\ parser' = p
         /\ program' = prog
         /\ pc' = next
         /\ frame' = fr
         /\ UNCHANGED <<tokens, output, symtab>>

\* while (!is_at_end(parser)) ... if (is_at_end(parser)) break; return (program)
ProgramEnd ==
    /\ pc = "loop"
    /\ is_at_end(Iter.p)
    /\ Finish(IF is_at_end(parser) THEN parser ELSE Iter.p, program, "done", frame)

ParsePreprocessor ==
    /\ pc = "loop"
    /\ match(Iter.p, "PREPROCESSOR")
    /\ \E a \in {attach_pending_comments(
                    advance(Iter.p),
                    ast_node_create("PREPROCESSOR", Iter.p.current))} :
         Finish(a.p,
                ast_node_add_child(
                    program,
                    Span([a.node EXCEPT !.blank_lines_before = blank_flag(Iter.ret)],
                         Iter.p.current, a.p.current)),
                "loop", frame)

\* the accept-or-recover tail shared by the typedef, struct, enum and union
\* branches; `semicolon` says whether a following `;` is consumed on success
Definition(r, start_errors, semicolon) ==
    IF r.node.type # "NULL" /\ r.p.error_count = start_errors
    THEN \E a \in {attach_pending_comments(r.p, r.node)} :
         \E p1 \in {IF semicolon /\ match(sw(a.p), "SEMICOLON")
                    THEN advance(sw(a.p))
                    ELSE IF semicolon THEN sw(a.p) ELSE a.p} :
             Finish(p1,
                    ast_node_add_child(
                        program,
                        Span([a.node EXCEPT !.blank_lines_before =
                                  blank_flag(Iter.ret)],
                             Iter.p.current, p1.current)),
                    "loop", frame)
    ELSE \E u \in {add_unparsed_child(restore_errors(r.p, start_errors),
                                      program, Iter.p.whitespace_start)} :
             Finish(NoteErrors(NoteAttempt(u.p, Iter.p.current),
                               Iter.p.error_count),
                    u.node, "loop", frame)

ParseTypedef ==
    /\ pc = "loop"
    /\ match(Iter.p, "TYPEDEF")
    /\ Definition(parse_typedef(Iter.p), Iter.p.error_count, FALSE)

\* struct { ... }, struct name { ... } and struct name; are definitions
StructLookahead(p) ==
    \/ AheadType(p, 1) = "LBRACE"
    \/ AheadType(p, 2) = "LBRACE"
    \/ AheadType(p, 1) = "IDENTIFIER" /\ AheadType(p, 2) = "SEMICOLON"

ParseStruct ==
    /\ pc = "loop"
    /\ match(Iter.p, "STRUCT") /\ StructLookahead(Iter.p)
    /\ Definition(parse_struct_definition(Iter.p), Iter.p.error_count, TRUE)

ParseEnum ==
    /\ pc = "loop"
    /\ match(Iter.p, "ENUM")
    /\ Definition(parse_enum_definition(Iter.p), Iter.p.error_count, TRUE)

ParseUnion ==
    /\ pc = "loop"
    /\ match(Iter.p, "UNION")
    /\ Definition(parse_union_definition(Iter.p), Iter.p.error_count, TRUE)

\* func = parse_function(parser): accepted, or left to the else branch
ParseFunction ==
    /\ pc = "loop"
    /\ ~is_at_end(Iter.p)
    /\ PeekType(Iter.p) \notin {"PREPROCESSOR", "TYPEDEF", "ENUM", "UNION"}
    /\ ~(match(Iter.p, "STRUCT") /\ StructLookahead(Iter.p))
    /\ \E start_errors \in {Iter.p.error_count}, r \in {parse_function(Iter.p)} :
          IF r.node.type # "NULL" /\ r.p.error_count = start_errors
          THEN Finish(sw(r.p),
                      ast_node_add_child(
                          program,
                          Span([r.node EXCEPT !.blank_lines_before =
                                    blank_flag(Iter.ret)],
                               Iter.p.current, r.p.current)),
                      "loop", frame)
          ELSE Finish(r.p, program, "not_function",
                      [blank_lines |-> Iter.ret,
                       section_start |-> Iter.p.whitespace_start,
                       start_errors |-> start_errors,
                       attempt |-> Iter.p.current])

\* the unparsed tail of the else branch, followed by the loop's skip_whitespace
Unparsed(p) ==
    \E u \in {add_unparsed_child(restore_errors(p, frame.start_errors),
                                 program, frame.section_start)} :
        Finish(sw(NoteErrors(NoteAttempt(u.p, frame.attempt), frame.start_errors)),
               u.node, "loop", frame)

\* not a function: a global variable declaration is tried
GlobalDeclaration ==
    /\ pc = "not_function"
    /\ \/ is_type_keyword(PeekType(parser))
       \/ match(parser, "IDENTIFIER")
          /\ symbol_is_typedef(parser.symbols, PeekLexeme(parser))
    /\ \E decl_errors \in {parser.error_count},
          r \in {parse_var_declaration(parser)} :
       \E a \in {attach_pending_comments(r.p, r.node)} :
          IF r.node.type # "NULL" /\ r.p.error_count = decl_errors
          THEN Finish(a.p,
                      ast_node_add_child(
                          program,
                          Span([a.node EXCEPT !.blank_lines_before =
                                    blank_flag(frame.blank_lines)],
                               parser.current, a.p.current)),
                      "loop", frame)
          ELSE Unparsed(r.p)

\* neither a function nor a declaration: captured raw
TopLevelUnparsed ==
    /\ pc = "not_function"
    /\ ~is_type_keyword(PeekType(parser))
    /\ ~(match(parser, "IDENTIFIER")
         /\ symbol_is_typedef(parser.symbols, PeekLexeme(parser)))
    /\ Unparsed(parser)

\* One more round of the element loop of parse_initializer that makes no
\* progress: while (!is_at_end(parser) && !match(parser, TOK_RBRACE))
InitializerSpin ==
    /\ pc = "initializer_loop"
    /\ ~is_at_end(parser) /\ ~match(parser, "RBRACE")
    /\ parser.steps + parser.spins <= StepFactor * token_count
    /\ parser' = [parser EXCEPT !.spins = @ + 1]
    /\ UNCHANGED <<tokens, program, pc, frame, output, symtab>>

-----------------------------------------------------------------------------
(* The AST formatter: format_node, format_program, and the formatters of     *)
(* functions, blocks, declarations, return and expression statements.  The   *)
(* formatters of the other node kinds are not part of the model: Format is   *)
(* taken for the trees that Formattable describes.                           *)

formatter_create == [output |-> <<>>, at_line_start |-> TRUE, indent_level |-> 0]

\* emit: the characters of str, written in one piece; at_line_start is left
\* set exactly by a newline (no other emitted string ends with one)
emit(fmt, str) ==
    IF str = "" THEN fmt
    ELSE [fmt EXCEPT !.output = Append(@, str), !.at_line_start = (str = "\n")]

emit_newline(fmt) == emit(fmt, "\n")

\* emit_indent with use_tabs = 1: one tab per indent level
RECURSIVE emit_tabs(_, _)
emit_tabs(fmt, n) == IF n <= 0 THEN fmt ELSE emit_tabs(emit(fmt, "\t"), n - 1)

emit_indent(fmt) == emit_tabs(fmt, fmt.indent_level)

\* text + 2: a line comment without its two slashes
AfterSlashes(text) == IF text = "// c" THEN " c" ELSE text

format_comment(fmt, comment, inline_comment) ==
    IF comment = NoTok THEN fmt
    ELSE With([text \in {Tok(comment).lexeme} |->
         With([f1 \in {IF ~inline_comment /\ ~fmt.at_line_start
                       THEN emit_newline(fmt) ELSE fmt} |->
         With([f2 \in {IF ~inline_comment THEN emit_indent(f1)
                       ELSE emit(f1, " ")} |->
         With([f3 \in {IF Tok(comment).type = "COMMENT_LINE"
                       THEN emit(emit(emit(f2, "/*"), AfterSlashes(text)), " */")
                       ELSE emit(f2, text)} |->
         IF ~inline_comment THEN emit_newline(f3) ELSE f3])])])])

RECURSIVE emit_leading_comments_from(_, _, _)
emit_leading_comments_from(fmt, node, i) ==
    IF i > Len(node.leading_comments) THEN fmt
    ELSE emit_leading_comments_from(
             format_comment(fmt, node.leading_comments[i], FALSE), node, i + 1)

emit_leading_comments(fmt, node) ==
    IF node.type = "NULL" THEN fmt ELSE emit_leading_comments_from(fmt, node, 1)

\* the strncmp tests of format_program on a directive's text
prev_is_conditional_start(lex) == lex \in {"#ifdef M", "#else"}

curr_is_conditional_end(lex) == lex \in {"#endif", "#else"}

\* need_blank of format_program for the child at position i (from 1) after prev
need_blank(i, prev, child) ==
    IF i <= 1 THEN FALSE
    ELSE IF prev.type = "PREPROCESSOR" /\ child.type = "PREPROCESSOR" THEN FALSE
    ELSE IF prev.type = "PREPROCESSOR" /\ prev.token # NoTok
            /\ prev_is_conditional_start(Tok(prev.token).lexeme) THEN FALSE
    ELSE IF child.type = "PREPROCESSOR" /\ child.token # NoTok
            /\ curr_is_conditional_end(Tok(child.token).lexeme) THEN FALSE
    ELSE IF prev.type = "PREPROCESSOR" /\ child.type # "PREPROCESSOR" THEN TRUE
    ELSE IF child.type = "PREPROCESSOR" /\ prev.type # "PREPROCESSOR"
            /\ prev.type # "PROGRAM" THEN TRUE
    ELSE IF prev.type = "FUNCTION" THEN TRUE
    ELSE IF prev.type \in {"STRUCT", "ENUM", "TYPEDEF"} THEN TRUE
    ELSE IF prev.type \in {"VAR_DECL", "FUNC_PTR"} THEN TRUE
    ELSE IF child.type = "FUNCTION" THEN TRUE
    ELSE IF child.type \in {"TYPEDEF", "STRUCT", "ENUM"} THEN TRUE
    ELSE child.blank_lines_before > 0

RECURSIVE emit_trailing_comments_from(_, _, _)
emit_trailing_comments_from(fmt, node, i) ==
    IF i > Len(node.trailing_comments) THEN fmt
    ELSE emit_trailing_comments_from(
             format_comment(fmt, node.trailing_comments[i], TRUE), node, i + 1)

emit_trailing_comments(fmt, node) ==
    IF node.type = "NULL" THEN fmt ELSE emit_trailing_comments_from(fmt, node, 1)

\* the loop over the tokens of a type, from position i: a star takes a space
\* before it unless it follows a star; a word takes one unless it comes first
\* or, in format_single_var (spaced_after_star false), follows a star
RECURSIVE emit_type_tokens(_, _, _, _, _)
emit_type_tokens(fmt, toks, i, last_was_star, spaced_after_star) ==
    IF i > Len(toks) THEN [fmt |-> fmt, last_was_star |-> last_was_star]
    ELSE IF Tok(toks[i]).type = "STAR"
    THEN emit_type_tokens(emit(IF i > 1 /\ ~last_was_star THEN emit(fmt, " ")
                               ELSE fmt, "*"),
                          toks, i + 1, TRUE, spaced_after_star)
    ELSE emit_type_tokens(emit(IF i > 1 /\ (spaced_after_star \/ ~last_was_star)
                               THEN emit(fmt, " ") ELSE fmt,
                               Tok(toks[i]).lexeme),
                          toks, i + 1, FALSE, spaced_after_star)

\* format_expression with format_binary and format_unary, for identifiers,
\* literals, binary, unary and ternary expressions
RECURSIVE format_expression(_, _)
format_expression(fmt, node) ==
    IF node.type = "NULL" THEN fmt
    ELSE IF node.type \in {"LITERAL", "IDENTIFIER"}
    THEN IF node.token # NoTok THEN emit(fmt, Tok(node.token).lexeme) ELSE fmt
    ELSE IF node.type = "BINARY"
    THEN With([f1 \in {IF Len(node.children) > 0
                       THEN format_expression(fmt, node.children[1]) ELSE fmt} |->
         With([f2 \in {emit(emit(emit(f1, " "),
                                 IF node.token # NoTok THEN Tok(node.token).lexeme
                                 ELSE ""), " ")} |->
         IF Len(node.children) > 1 THEN format_expression(f2, node.children[2])
         ELSE f2])])
    ELSE IF node.type = "UNARY"
    THEN With([f1 \in {emit(fmt, IF node.token # NoTok THEN Tok(node.token).lexeme
                                 ELSE "")} |->
         IF Len(node.children) > 0 THEN format_expression(f1, node.children[1])
         ELSE f1])
    ELSE IF node.type = "TERNARY"
    THEN With([f1 \in {emit(IF Len(node.children) > 0
                            THEN format_expression(fmt, node.children[1])
                            ELSE fmt, " ? ")} |->
         With([f2 \in {emit(IF Len(node.children) > 1
                            THEN format_expression(f1, node.children[2])
                            ELSE f1, " : ")} |->
         IF Len(node.children) > 2 THEN format_expression(f2, node.children[3])
         ELSE f2])])
    ELSE fmt

\* format_var_decl with format_single_var, for a declaration of one variable
\* with its type tokens and neither brackets nor an initialiser
format_var_decl(fmt, node) ==
    With([t \in {emit_type_tokens(emit_indent(fmt), node.data.type_tokens, 1,
                                  FALSE, FALSE)} |->
    With([f1 \in {IF node.data.name_token # NoTok
                  THEN emit(IF ~t.last_was_star THEN emit(t.fmt, " ") ELSE t.fmt,
                            Tok(node.data.name_token).lexeme)
                  ELSE t.fmt} |->
    emit_newline(emit_trailing_comments(emit(f1, ";"), node))])])

\* format_return without the parentheses around the value
format_return_bare(fmt, node) ==
    With([f1 \in {emit(emit_indent(fmt), "return")} |->
    With([f2 \in {IF Len(node.children) > 0
                  THEN format_expression(emit(f1, " "), node.children[1])
                  ELSE f1} |->
    emit_newline(emit_trailing_comments(emit(f2, ";"), node))])])

format_return(fmt, node) ==
    With([f1 \in {emit(emit_indent(fmt), "return")} |->
    With([f2 \in {IF Len(node.children) > 0
                  THEN emit(format_expression(emit(f1, " ("), node.children[1]), ")")
                  ELSE f1} |->
    emit_newline(emit_trailing_comments(emit(f2, ";"), node))])])

RECURSIVE format_node(_, _), format_program(_, _), format_children(_, _, _)
RECURSIVE format_statements(_, _, _, _, _), format_block(_, _)
RECURSIVE format_statements_flag_always(_, _, _, _, _)

\* format_statements with the user's flag honoured before the transition too
format_statements_flag_always(fmt, block, j, had_var_decl, added_blank) ==
    IF j > Len(block.children) THEN fmt
    ELSE With([stmt \in {block.children[j]} |->
         With([is_var_decl \in {stmt.type \in {"VAR_DECL", "FUNC_PTR"}} |->
         With([transition \in {had_var_decl /\ ~is_var_decl /\ ~added_blank} |->
         With([f1 \in {IF transition \/ stmt.blank_lines_before > 0
                       THEN emit_newline(fmt) ELSE fmt} |->
         format_statements_flag_always(
             format_node(emit_leading_comments(f1, stmt), stmt), block, j + 1,
             had_var_decl \/ is_var_decl, added_blank \/ transition)])])])])

\* the loop over the statements of a block, the same in format_function and
\* format_block, from position j with the locals had_var_decl and added_blank
format_statements(fmt, block, j, had_var_decl, added_blank) ==
    IF j > Len(block.children) THEN fmt
    ELSE With([stmt \in {block.children[j]} |->
         With([is_var_decl \in {stmt.type \in {"VAR_DECL", "FUNC_PTR"}} |->
         With([transition \in {had_var_decl /\ ~is_var_decl /\ ~added_blank} |->
         With([f1 \in {IF transition \/ (added_blank /\ stmt.blank_lines_before > 0)
                       THEN emit_newline(fmt) ELSE fmt} |->
         format_statements(
             format_node(emit_leading_comments(f1, stmt), stmt), block, j + 1,
             had_var_decl \/ is_var_decl, added_blank \/ transition)])])])])

format_block(fmt, node) ==
    With([f1 \in {emit_newline(emit(emit_indent(emit_newline(fmt)), "{"))} |->
    With([f2 \in {format_statements([f1 EXCEPT !.indent_level = @ + 1], node, 1,
                                    FALSE, FALSE)} |->
    emit_newline(emit(emit_indent([f2 EXCEPT !.indent_level = @ - 1]), "}"))])])

\* format_function for a function without parameters
format_function(fmt, node) ==
    IF node.token = NoTok THEN fmt
    ELSE
    With([t \in {emit_type_tokens(fmt, node.data.return_type_tokens, 1, FALSE,
                                  TRUE)} |->
    With([f1 \in {IF Len(node.data.return_type_tokens) > 0 /\ ~t.last_was_star
                  THEN emit(t.fmt, " ") ELSE t.fmt} |->
    With([f2 \in {emit(emit(emit(emit(f1, Tok(node.token).lexeme), "("), "void"),
                       ")")} |->
    IF Len(node.children) > 0
    THEN With([f3 \in {emit_newline(emit(emit_newline(f2), "{"))} |->
         With([f4 \in {[f3 EXCEPT !.indent_level = @ + 1]} |->
         With([f5 \in {IF node.children[1].type = "BLOCK"
                       THEN format_statements(f4, node.children[1], 1, FALSE, FALSE)
                       ELSE format_node(f4, node.children[1])} |->
         emit_newline(emit([f5 EXCEPT !.indent_level = @ - 1], "}"))])])])
    ELSE emit_newline(emit(f2, ";"))])])])

\* switch (node->type): a kind without a case falls to default and emits nothing
format_node(fmt, node) ==
    IF node.type = "NULL" THEN fmt
    ELSE IF node.type = "PROGRAM" THEN format_program(fmt, node)
    ELSE IF node.type = "FUNCTION" THEN format_function(fmt, node)
    ELSE IF node.type = "BLOCK" THEN format_block(fmt, node)
    ELSE IF node.type = "VAR_DECL" THEN format_var_decl(fmt, node)
    ELSE IF node.type = "RETURN" THEN format_return(fmt, node)
    ELSE IF node.type = "EXPR_STMT"
         THEN emit_newline(emit_trailing_comments(
                  emit(IF Len(node.children) > 0
                       THEN format_expression(emit_indent(fmt), node.children[1])
                       ELSE emit_indent(fmt), ";"), node))
    ELSE IF node.type = "PREPROCESSOR"
         THEN IF node.token # NoTok
              THEN emit_newline(emit(fmt, Tok(node.token).lexeme))
              ELSE fmt
    ELSE IF node.type \in {"BINARY", "UNARY", "LITERAL", "IDENTIFIER", "TERNARY"}
         THEN format_expression(fmt, node)
    ELSE fmt

\* the loop of format_program over the children from position i
format_children(fmt, node, i) ==
    IF i > Len(node.children) THEN fmt
    ELSE With([child \in {node.children[i]} |->
         With([f1 \in {IF need_blank(i, IF i > 1 THEN node.children[i - 1] ELSE node,
                                     child)
                       THEN emit_newline(fmt) ELSE fmt} |->
         With([f2 \in {format_node(emit_leading_comments(f1, child), child)} |->
         format_children(IF child.type \in {"STRUCT", "ENUM"}
                         THEN emit_newline(emit(f2, ";")) ELSE f2,
                         node, i + 1)])])])

format_program(fmt, node) == format_children(fmt, node, 1)

formatter_format(formatter, ast) ==
    IF ast.type = "NULL" THEN formatter ELSE format_node(formatter, ast)

\* the trees within the formatter's model: directives, unparsed regions and
\* functions without parameters whose statements are declarations of one
\* variable, expression and return statements, blocks and unparsed regions
RECURSIVE FormattableExpr(_)
FormattableExpr(e) ==
    \/ e.type \in {"IDENTIFIER", "LITERAL"}
    \/ /\ e.type \in {"BINARY", "UNARY", "TERNARY"}
       /\ \A i \in 1..Len(e.children) : FormattableExpr(e.children[i])

RECURSIVE FormattableStmt(_)
FormattableStmt(s) ==
    /\ s.blank_lines_before # -1
    /\ \/ s.type = "UNPARSED"
       \/ /\ s.type = "VAR_DECL"
          /\ s.data.type_tokens # <<>>
          /\ s.data.array_tokens = <<>>
          /\ s.data.init_expr.type = "NULL"
          /\ s.data.extra_vars = <<>>
       \/ /\ s.type \in {"EXPR_STMT", "RETURN"}
          /\ \A i \in 1..Len(s.children) : FormattableExpr(s.children[i])
       \/ /\ s.type = "BLOCK"
          /\ \A i \in 1..Len(s.children) : FormattableStmt(s.children[i])

Formattable(n) ==
    \/ n.type \in {"PREPROCESSOR", "UNPARSED"}
    \/ /\ n.type = "FUNCTION"
       /\ n.data.params = <<>>
       /\ Len(n.children) = 1
       /\ n.children[1].type = "BLOCK"
       /\ \A i \in 1..Len(n.children[1].children) :
              FormattableStmt(n.children[1].children[i])

\* formatter_format on the tree parser_parse returned
Format ==
    /\ pc = "done"
    /\ \A i \in 1..Len(program.children) : Formattable(program.children[i])
    /\ output' = formatter_format(formatter_create, program).output
    /\ pc' = IF output = <<>> THEN "formatted" ELSE "reformatted"
    /\ UNCHANGED <<tokens, parser, program, frame, symtab>>

-----------------------------------------------------------------------------
(* The line formatter: format_source on a source text whose lines are        *)
(* directives or empty.  The text is the one the token list was lexed from.  *)

\* the lines of the source text: a directive up to its line break, or nothing
RECURSIVE SourceLines(_, _)
SourceLines(seq, i) ==
    IF i > Len(seq) \/ seq[i].type = "EOF" THEN <<>>
    ELSE IF seq[i].type = "PREPROCESSOR"
    THEN <<seq[i].lexeme>>
         \o SourceLines(seq, IF i < Len(seq) /\ seq[i + 1].type = "NEWLINE"
                             THEN i + 2 ELSE i + 1)
    ELSE <<"">> \o SourceLines(seq, i + 1)

\* get_pp_group: 1 include, 2 define or undef, 3 conditional, 4 other directive
get_pp_group(line) ==
    IF line = "" THEN 0
    ELSE IF line = "#include <s.h>" THEN 1
    ELSE IF line = "#define M" THEN 2
    ELSE IF line \in {"#ifdef M", "#endif", "#else"} THEN 3
    ELSE 4

\* one turn of the loop of format_source on a line that is empty or a directive
format_line(st, line) ==
    IF line = ""
    THEN IF ~st.prev_was_empty /\ Len(st.lb) > 0
         THEN [st EXCEPT !.lb = Append(@, ""), !.prev_was_empty = TRUE]
         ELSE st
    ELSE With([curr_pp_group \in {get_pp_group(line)} |->
         With([pending_blank \in {st.pending_blank
                                  \/ (st.prev_pp_group # 0
                                      /\ curr_pp_group # st.prev_pp_group)} |->
         With([lb1 \in {IF pending_blank /\ Len(st.lb) > 0
                           /\ st.lb[Len(st.lb)] # ""
                        THEN Append(st.lb, "") ELSE st.lb} |->
         [lb |-> Append(lb1, line), prev_was_empty |-> FALSE,
          prev_pp_group |-> curr_pp_group,
          pending_blank |-> pending_blank /\ Len(st.lb) = 0]])])])

RECURSIVE format_lines(_, _, _)
format_lines(st, lines, i) ==
    IF i > Len(lines) THEN st
    ELSE format_lines(format_line(st, lines[i]), lines, i + 1)

\* fprintf(output, "%s\n", ...) for every line of the buffer
RECURSIVE print_lines(_, _)
print_lines(lb, i) ==
    IF i > Len(lb) THEN <<>>
    ELSE (IF lb[i] = "" THEN <<"\n">> ELSE <<lb[i], "\n">>) \o print_lines(lb, i + 1)

format_source(lines) ==
    print_lines(format_lines([lb |-> <<>>, prev_was_empty |-> FALSE,
                              prev_pp_group |-> 0, pending_blank |-> FALSE],
                             lines, 1).lb, 1)

\* format_source on the source text, for texts of directives and empty lines
FormatSource ==
    /\ pc = "done"
    /\ output = <<>>
    /\ \A i \in 1..Len(tokens) : tokens[i].type \in {"PREPROCESSOR", "NEWLINE", "EOF"}
    /\ output' = format_source(SourceLines(tokens, 1))
    /\ pc' = "printed"
    /\ UNCHANGED <<tokens, parser, program, frame, symtab>>

-----------------------------------------------------------------------------
(* The token-stream formatter: formatter_format of src/formatter.c, which    *)
(* main runs on the tokens of the lexer without parsing them.  Its emit      *)
(* functions keep at_line_start and indent_level as the ones above do.       *)

\* TOK_IF .. TOK_REGISTER of the token type enumeration
is_keyword(type) ==
    type \in {"IF", "ELSE", "WHILE", "FOR", "DO", "SWITCH", "CASE", "DEFAULT",
              "BREAK", "CONTINUE", "RETURN", "GOTO", "TYPEDEF", "STRUCT",
              "UNION", "ENUM", "SIZEOF", "VOID", "CHAR_KW", "SHORT", "INT",
              "LONG", "FLOAT_KW", "DOUBLE", "SIGNED", "UNSIGNED", "CONST",
              "VOLATILE", "STATIC", "EXTERN", "AUTO", "REGISTER"}

is_identifier_like(type) ==
    type \in {"IDENTIFIER", "INTEGER", "FLOAT", "STRING", "CHAR"} \/ is_keyword(type)

\* TOK_PLUS .. TOK_COLON of the token type enumeration
is_operator_token(type) ==
    type \in {"PLUS", "MINUS", "STAR", "SLASH", "PERCENT", "ASSIGN",
              "PLUS_ASSIGN", "MINUS_ASSIGN", "STAR_ASSIGN", "SLASH_ASSIGN",
              "PERCENT_ASSIGN", "AMPERSAND_ASSIGN", "PIPE_ASSIGN",
              "CARET_ASSIGN", "LSHIFT_ASSIGN", "RSHIFT_ASSIGN", "EQUAL",
              "NOT_EQUAL", "LESS", "GREATER", "LESS_EQUAL", "GREATER_EQUAL",
              "LOGICAL_AND", "LOGICAL_OR", "LOGICAL_NOT", "AMPERSAND", "PIPE",
              "CARET", "TILDE", "LSHIFT", "RSHIFT", "INCREMENT", "DECREMENT",
              "ARROW", "DOT", "ELLIPSIS", "QUESTION", "COLON"}

needs_space_between(prev, curr) ==
    IF prev \in {"EOF", "PREPROCESSOR"} THEN FALSE
    ELSE IF prev \in {"LPAREN", "LBRACKET", "DOT", "ARROW"} THEN FALSE
    ELSE IF curr \in {"RPAREN", "RBRACKET", "COMMA", "SEMICOLON", "COLON",
                      "DOT", "ARROW"} THEN FALSE
    ELSE IF curr = "LPAREN" /\ is_keyword(prev) THEN TRUE
    ELSE IF is_identifier_like(prev) /\ is_identifier_like(curr) THEN TRUE
    ELSE is_operator_token(prev) \/ is_operator_token(curr)

ensure_leading_space(fmt, prev, curr, saw_space) ==
    IF fmt.at_line_start THEN emit_indent(fmt)
    ELSE IF saw_space \/ needs_space_between(prev, curr) THEN emit(fmt, " ")
    ELSE fmt

\* a flush that ends the line without writing the directive
flush_preprocessor_line_blank(fmt, text) ==
    emit_newline(IF ~fmt.at_line_start THEN emit_newline(fmt) ELSE fmt)

flush_preprocessor_line(fmt, text) ==
    emit_newline(emit(IF ~fmt.at_line_start THEN emit_newline(fmt) ELSE fmt, text))

\* the state of the loop of formatter_format: the formatter and its locals
StreamState(fmt, prev_sig, saw_space, paren_depth) ==
    [fmt |-> fmt, prev_sig |-> prev_sig, saw_space |-> saw_space,
     paren_depth |-> paren_depth]

\* one turn of the loop of formatter_format: the switch on tok->type
format_token(st, tok) ==
    With([led \in {ensure_leading_space(st.fmt, st.prev_sig, tok.type, st.saw_space)} |->
    CASE tok.type = "WHITESPACE" ->
           [st EXCEPT !.saw_space = @ \/ ~st.fmt.at_line_start]
      [] tok.type = "NEWLINE" ->
           StreamState([emit_newline(st.fmt) EXCEPT !.at_line_start = TRUE],
                       "EOF", FALSE, st.paren_depth)
      [] tok.type = "PREPROCESSOR" ->
           StreamState([flush_preprocessor_line(st.fmt, tok.lexeme)
                           EXCEPT !.at_line_start = TRUE],
                       "PREPROCESSOR", FALSE, st.paren_depth)
      [] tok.type = "COMMENT_LINE" ->
           StreamState([emit_newline(emit(led, tok.lexeme))
                           EXCEPT !.at_line_start = TRUE],
                       "EOF", FALSE, st.paren_depth)
      [] tok.type = "COMMENT_BLOCK" ->
           StreamState(emit(led, tok.lexeme), "COMMENT_BLOCK", TRUE, st.paren_depth)
      [] tok.type = "LBRACE" ->
           StreamState([emit_newline(emit(led, "{"))
                           EXCEPT !.indent_level = @ + 1, !.at_line_start = TRUE],
                       "LBRACE", FALSE, st.paren_depth)
      [] tok.type = "RBRACE" ->
           With([f1 \in {[st.fmt EXCEPT !.indent_level =
                                            IF @ > 0 THEN @ - 1 ELSE @]} |->
           With([f2 \in {IF ~f1.at_line_start THEN emit_newline(f1) ELSE f1} |->
           StreamState([emit_newline(emit(emit_indent(f2), "}"))
                           EXCEPT !.at_line_start = TRUE],
                       "RBRACE", FALSE, st.paren_depth)])])
      [] tok.type = "LPAREN" ->
           StreamState(emit(led, "("), "LPAREN", FALSE, st.paren_depth + 1)
      [] tok.type = "RPAREN" ->
           StreamState(emit(led, ")"), "RPAREN", FALSE,
                       IF st.paren_depth > 0 THEN st.paren_depth - 1
                       ELSE st.paren_depth)
      [] tok.type = "LBRACKET" ->
           StreamState(emit(led, "["), "LBRACKET", FALSE, st.paren_depth)
      [] tok.type = "RBRACKET" ->
           StreamState(emit(led, "]"), "RBRACKET", FALSE, st.paren_depth)
      [] tok.type = "SEMICOLON" ->
           IF st.paren_depth = 0
           THEN StreamState([emit_newline(emit(led, ";"))
                                EXCEPT !.at_line_start = TRUE],
                            "EOF", FALSE, st.paren_depth)
           ELSE StreamState(emit(led, ";"), "SEMICOLON", TRUE, st.paren_depth)
      [] tok.type = "COMMA" ->
           StreamState(emit(led, ","), "COMMA", TRUE, st.paren_depth)
      [] OTHER ->
           StreamState(emit(led, tok.lexeme), tok.type,
                       tok.type \notin {"ARROW", "DOT"}
                       /\ (is_operator_token(tok.type)
                           \/ is_identifier_like(tok.type)),
                       st.paren_depth)])

RECURSIVE format_tokens(_, _, _)
format_tokens(st, toks, i) ==
    IF i > Len(toks) THEN st
    ELSE format_tokens(format_token(st, toks[i]), toks, i + 1)

\* formatter_format(formatter, tokens, token_count) of src/formatter.c
stream_format(formatter, toks) ==
    With([st \in {format_tokens(StreamState(formatter, "EOF", FALSE, 0), toks, 1)} |->
    IF ~st.fmt.at_line_start THEN emit_newline(st.fmt) ELSE st.fmt])

\* format_to_string of main: the tokens of the lexer go to the formatter
FormatToString ==
    /\ pc = "loop"
    /\ parser = parser_create
    /\ output = <<>>
    /\ output' = stream_format(formatter_create, tokens).output
    /\ pc' = "streamed"
    /\ UNCHANGED <<tokens, parser, program, frame, symtab>>

-----------------------------------------------------------------------------
(* The second round: the formatted text is lexed and parsed again.  output   *)
(* keeps the text of the first round until the second Format replaces it.    *)

\* tokens the lexer would fuse into one if they touched are kept apart
WordLike(t) ==
    t.type \notin {"LPAREN", "RPAREN", "LBRACE", "RBRACE", "LBRACKET", "RBRACKET",
                   "SEMICOLON", "COMMA", "COLON", "QUESTION", "NEWLINE",
                   "WHITESPACE", "PREPROCESSOR", "COMMENT_LINE", "ASSIGN", "STAR",
                   "PLUS", "LESS", "DOT", "INCREMENT", "ELLIPSIS", "MINUS",
                   "PLUS_ASSIGN"}

Fuses(a, b) ==
    \/ WordLike(a) /\ WordLike(b)
    \/ a.type \in {"ASSIGN", "STAR", "PLUS", "LESS", "INCREMENT", "MINUS",
                     "PLUS_ASSIGN"}
       /\ b.type \in {"ASSIGN", "STAR", "PLUS", "LESS", "INCREMENT", "MINUS",
                     "PLUS_ASSIGN"}
    \/ a.type \in {"DOT", "INTEGER", "ELLIPSIS"}
       /\ b.type \in {"DOT", "INTEGER", "ELLIPSIS"}
    \/ a.type \in {"PREPROCESSOR", "COMMENT_LINE"} /\ b.type # "NEWLINE"

\* the token types whose lexeme is fixed: keywords, operators and punctuation
FixedTypes ==
    {"IF", "ELSE", "WHILE", "FOR", "DO", "SWITCH", "CASE", "DEFAULT", "BREAK",
     "CONTINUE", "RETURN", "TYPEDEF", "STRUCT", "UNION", "ENUM", "SIZEOF",
     "VOID", "INT", "LONG", "DOUBLE", "CONST", "STATIC",
     "PLUS", "MINUS", "STAR", "SLASH", "ASSIGN", "PLUS_ASSIGN", "EQUAL", "LESS",
     "LOGICAL_AND", "LOGICAL_OR", "LOGICAL_NOT", "AMPERSAND", "PIPE", "CARET",
     "LSHIFT", "INCREMENT", "ARROW", "DOT", "ELLIPSIS", "QUESTION", "COLON",
     "SEMICOLON", "COMMA", "LPAREN", "RPAREN", "LBRACE", "RBRACE", "LBRACKET",
     "RBRACKET"}

\* the identifiers of the source texts
Identifiers == {"E", "S", "U", "a", "b", "c", "f", "size_t", "t", "v", "x", "y", "z"}

\* scan_token on the characters of one emitted piece: the tokens it holds,
\* none for a piece outside the texts of the second round
scan_token(piece) ==
    IF piece = "\n" THEN <<[type |-> "NEWLINE", lexeme |-> piece]>>
    ELSE IF piece \in {" ", "\t"} THEN <<[type |-> "WHITESPACE", lexeme |-> piece]>>
    ELSE IF piece = " (" THEN <<T("WHITESPACE"), T("LPAREN")>>
    ELSE IF piece = " ? " THEN <<T("WHITESPACE"), T("QUESTION"), T("WHITESPACE")>>
    ELSE IF piece = " : " THEN <<T("WHITESPACE"), T("COLON"), T("WHITESPACE")>>
    ELSE IF get_pp_group(piece) \in 1..3 THEN <<PP(piece)>>
    ELSE IF piece = Lexeme("INTEGER") THEN <<T("INTEGER")>>
    ELSE IF \E t \in FixedTypes : Lexeme(t) = piece
    THEN <<T(CHOOSE t \in FixedTypes : Lexeme(t) = piece)>>
    ELSE IF piece \in Identifiers THEN <<ID(piece)>>
    ELSE <<>>

\* the loop of lexer_tokenize over the pieces of the text from position i
RECURSIVE scan_pieces(_, _)
scan_pieces(text, i) ==
    IF i > Len(text) THEN <<>> ELSE scan_token(text[i]) \o scan_pieces(text, i + 1)

\* lexer_tokenize: the tokens of the text, closed by the EOF token
lexer_tokenize(text) == scan_pieces(text, 1) \o <<T("EOF")>>

\* the text lexes piece by piece: every piece is known and no two tokens that
\* meet would be scanned as one
Lexable(text) ==
    /\ \A i \in 1..Len(text) : scan_token(text[i]) # <<>>
    /\ \E toks \in {scan_pieces(text, 1)} :
           \A i \in 1..(Len(toks) - 1) :
               /\ ~Fuses(toks[i], toks[i + 1])
               /\ ~(toks[i].type = "WHITESPACE" /\ toks[i + 1].type = "WHITESPACE")

\* the operator/operand tree under a node: kinds, lexemes and children
RECURSIVE Shape(_)
Shape(node) ==
    [type |-> node.type,
     lexeme |-> IF node.type = "NULL" \/ node.token = NoTok THEN ""
                ELSE Tok(node.token).lexeme,
     children |-> IF node.type = "NULL" THEN <<>>
                  ELSE [i \in 1..Len(node.children) |-> Shape(node.children[i])]]

\* main run again on the text it wrote; the tree of the first run is kept
Relex ==
    /\ pc = "formatted"
    /\ output # <<>>
    /\ Lexable(output)
    /\ tokens' = lexer_tokenize(output)
    /\ parser' = [parser_create EXCEPT !.round_one = Shape(program)]
    /\ program' = ast_node_create("PROGRAM", NoTok)
    /\ pc' = "loop"
    /\ frame' = [blank_lines |-> 0, section_start |-> 0, start_errors |-> 0,
                 attempt |-> 0]
    /\ UNCHANGED <<output, symtab>>

-----------------------------------------------------------------------------
(* Inputs *)

\* Source fragments around a free run of tokens drawn from `alpha`
Contexts ==
    { [pre |-> <<>>, post |-> <<>>,
       alpha |-> {T("INT"), ID("x"), T("LPAREN"), T("RPAREN"), T("SEMICOLON"),
                  T("LBRACE"), T("RBRACE"), T("NEWLINE")}],
      [pre |-> <<T("INT"), ID("f"), T("LPAREN"), T("RPAREN")>>, post |-> <<>>,
       alpha |-> {T("INT"), ID("x"), T("SEMICOLON"), T("LBRACE"), T("RBRACE"),
                  T("ASSIGN")}],
      [pre |-> <<T("INT"), ID("f"), T("LPAREN"), T("RPAREN"), T("LBRACE")>>,
       post |-> <<T("RBRACE")>>,
       alpha |-> {ID("x"), T("SEMICOLON"), T("DO"), T("RETURN"), T("INT"),
                  T("ASSIGN"), T("LPAREN"), T("NEWLINE"), T("LBRACE"),
                  T("RBRACE")}],
      [pre |-> <<T("INT"), ID("f"), T("LPAREN"), T("RPAREN"), T("LBRACE")>>,
       post |-> <<ID("x"), T("SEMICOLON"), T("RBRACE")>>,
       alpha |-> {ID("y"), T("SEMICOLON"), T("LPAREN"), T("RPAREN"),
                  T("NEWLINE"), T("LBRACE"), T("RBRACE"), T("INTEGER")}],
      [pre |-> <<T("INT"), ID("f"), T("LPAREN"), T("RPAREN"), T("LBRACE"),
                 T("IF"), T("LPAREN"), ID("x"), T("RPAREN")>>,
       post |-> <<T("RBRACE")>>,
       alpha |-> {ID("y"), T("SEMICOLON"), T("ELSE"), T("NEWLINE"),
                  T("LBRACE"), T("RBRACE")}],
      [pre |-> <<T("INT"), ID("f"), T("LPAREN"), T("RPAREN"), T("LBRACE"),
                 T("SWITCH"), T("LPAREN"), ID("x"), T("RPAREN"), T("LBRACE")>>,
       post |-> <<T("RBRACE"), T("RBRACE")>>,
       alpha |-> {T("CASE"), T("DEFAULT"), T("INTEGER"), T("COLON"),
                  T("BREAK"), T("SEMICOLON")}],
      [pre |-> <<T("INT"), ID("f"), T("LPAREN"), T("RPAREN"), T("LBRACE"),
                 T("FOR"), T("LPAREN")>>,
       post |-> <<T("RPAREN"), T("SEMICOLON"), T("RBRACE")>>,
       alpha |-> {ID("x"), T("SEMICOLON"), T("COMMA"), T("INCREMENT"),
                  T("LESS")}],
      [pre |-> <<T("INT"), ID("f"), T("LPAREN"), T("RPAREN"), T("LBRACE"),
                 T("WHILE"), T("LPAREN"), ID("x"), T("RPAREN")>>,
       post |-> <<T("RBRACE")>>,
       alpha |-> {ID("y"), T("SEMICOLON"), T("BREAK"), T("CONTINUE"),
                  T("NEWLINE")}],
      [pre |-> <<T("INT"), ID("a"), T("ASSIGN")>>, post |-> <<T("SEMICOLON")>>,
       alpha |-> {T("LBRACE"), T("RBRACE"), T("INTEGER"), T("COMMA"), T("DOT"),
                  ID("x"), T("PLUS"), T("QUESTION"), T("COLON")}],
      [pre |-> <<T("STRUCT"), ID("S"), T("LBRACE")>>,
       post |-> <<T("RBRACE"), T("SEMICOLON")>>,
       alpha |-> {T("INT"), ID("x"), T("SEMICOLON"), T("STAR"), T("LPAREN"),
                  T("COMMA"), T("RPAREN")}],
      [pre |-> <<T("UNION"), ID("U"), T("LBRACE")>>,
       post |-> <<T("RBRACE"), T("SEMICOLON")>>,
       alpha |-> {T("INT"), ID("x"), T("SEMICOLON"), T("LBRACKET"),
                  T("RBRACKET")}],
      [pre |-> <<T("ENUM"), ID("E"), T("LBRACE")>>,
       post |-> <<T("RBRACE"), T("SEMICOLON")>>,
       alpha |-> {ID("x"), T("ASSIGN"), T("INTEGER"), T("COMMA"), T("LPAREN"),
                  T("NEWLINE")}],
      [pre |-> <<T("TYPEDEF")>>, post |-> <<T("SEMICOLON"), T("NEWLINE"), ID("t"),
                                            ID("v"), T("SEMICOLON")>>,
       alpha |-> {T("INT"), ID("t"), T("STAR"), T("LPAREN"), T("RPAREN"),
                  T("STRUCT"), T("ENUM")}],
      [pre |-> <<T("PREPROCESSOR"), T("NEWLINE")>>, post |-> <<>>,
       alpha |-> {T("INT"), ID("x"), T("SEMICOLON"), T("NEWLINE"),
                  T("PREPROCESSOR"), PP("#ifdef M"), PP("#endif"),
                  PP("#include <s.h>"), T("COMMENT_LINE")}],
      [pre |-> <<T("INT"), ID("f"), T("LPAREN")>>,
       post |-> <<T("RPAREN"), T("SEMICOLON")>>,
       alpha |-> {T("INT"), ID("x"), T("COMMA"), T("STAR"), T("ELLIPSIS"),
                  T("LBRACKET"), T("RBRACKET")}],
      [pre |-> <<T("INT"), ID("f"), T("LPAREN"), T("RPAREN"), T("LBRACE")>>,
       post |-> <<ID("b"), T("SEMICOLON"), T("RBRACE")>>,
       alpha |-> {ID("a"), ID("size_t"), T("STAR"), T("PLUS"), T("ASSIGN"),
                  T("SEMICOLON")}],
      [pre |-> <<T("STRUCT"), ID("S")>>, post |-> <<T("SEMICOLON")>>,
       alpha |-> {ID("f"), T("LPAREN"), T("RPAREN"), T("STAR"), T("LBRACE"),
                  T("RBRACE")}],
      [pre |-> <<T("ENUM"), ID("E")>>, post |-> <<T("SEMICOLON")>>,
       alpha |-> {ID("f"), T("LPAREN"), T("RPAREN"), T("STAR"), T("LBRACE"),
                  T("RBRACE")}],
      [pre |-> <<T("INT"), ID("f"), T("LPAREN"), T("RPAREN"), T("LBRACE"),
                 T("RETURN"), ID("x")>>,
       post |-> <<ID("z"), T("SEMICOLON"), T("RBRACE")>>,
       alpha |-> {ID("y"), T("ASSIGN"), T("PLUS_ASSIGN"), T("PLUS"),
                  T("MINUS"), T("STAR"), T("LESS")}],
      [pre |-> <<T("INT"), ID("f"), T("LPAREN"), T("RPAREN"), T("LBRACE"),
                 T("RETURN"), ID("x"), T("QUESTION"), ID("y"), T("COLON"),
                 ID("a")>>,
       post |-> <<ID("z"), T("SEMICOLON"), T("RBRACE")>>,
       alpha |-> {ID("y"), T("QUESTION"), T("COLON"), T("PLUS"), T("STAR"),
                  T("ASSIGN")}],
      [pre |-> <<T("INT"), ID("f"), T("LPAREN"), T("RPAREN"), T("LBRACE"),
                 T("RETURN"), ID("x")>>,
       post |-> <<ID("y"), T("COLON"), ID("z"), T("SEMICOLON"), T("RBRACE")>>,
       alpha |-> {ID("y"), T("QUESTION"), T("COLON"), T("PLUS"), T("STAR"),
                  T("ASSIGN")}],
      [pre |-> <<T("INT"), ID("f"), T("LPAREN"), T("RPAREN"), T("LBRACE"),
                 T("RETURN"), T("SIZEOF"), T("LPAREN")>>,
       post |-> <<T("RPAREN"), T("SEMICOLON"), T("RBRACE")>>,
       alpha |-> {ID("x"), ID("size_t"), T("INT"), T("DOUBLE"), T("STAR"),
                  T("PLUS"), T("INTEGER")}] }

Middles(alpha) == UNION {[1..n -> alpha] : n \in 0..MaxLen}

RECURSIVE Spaced(_)
Spaced(seq) ==
    IF Len(seq) <= 1 THEN seq
    ELSE IF seq[1].type \in {"PREPROCESSOR", "COMMENT_LINE"}
            /\ seq[2].type # "NEWLINE"
    THEN <<seq[1], T("NEWLINE")>> \o Spaced(Tail(seq))
    ELSE IF Fuses(seq[1], seq[2])
    THEN <<seq[1], T("WHITESPACE")>> \o Spaced(Tail(seq))
    ELSE <<seq[1]>> \o Spaced(Tail(seq))

\* Function bodies around a free run of statements and line breaks: a
\* declaration, an expression statement, a line break, two blank lines
Phrases ==
    { <<ID("size_t"), ID("a"), T("SEMICOLON")>>,
      <<ID("b"), T("SEMICOLON")>>,
      <<T("NEWLINE")>>,
      <<T("NEWLINE"), T("NEWLINE"), T("NEWLINE")>> }

BodyContexts ==
    { [pre |-> <<T("INT"), ID("f"), T("LPAREN"), T("RPAREN"), T("LBRACE")>>,
       post |-> <<ID("c"), T("SEMICOLON"), T("RBRACE")>>],
      [pre |-> <<T("INT"), ID("f"), T("LPAREN"), T("RPAREN"), T("LBRACE"),
                 ID("size_t"), ID("a"), T("SEMICOLON")>>,
       post |-> <<ID("c"), T("SEMICOLON"), T("RBRACE")>>],
      [pre |-> <<T("INT"), ID("f"), T("LPAREN"), T("RPAREN"), T("LBRACE"),
                 T("LBRACE")>>,
       post |-> <<ID("c"), T("SEMICOLON"), T("RBRACE"), T("RBRACE")>>] }

\* Return statements around a free run of pieces of an expression
ExprPhrases ==
    { <<T("LPAREN"), ID("a"), T("PLUS"), ID("b"), T("RPAREN")>>,
      <<ID("c")>>, <<T("STAR")>>, <<T("PLUS")>>, <<T("LPAREN")>>,
      <<T("RPAREN")>> }

ExprContext ==
    [pre |-> <<T("INT"), ID("f"), T("LPAREN"), T("RPAREN"), T("LBRACE"),
               T("RETURN")>>,
     post |-> <<T("SEMICOLON"), T("RBRACE")>>]

\* Statements and declarations with comments after them, in a function body
\* and at top level
CommentPhrases ==
    { <<ID("x"), T("SEMICOLON")>>,
      <<T("INT"), ID("y"), T("SEMICOLON")>>,
      <<T("RETURN"), ID("x"), T("SEMICOLON")>>,
      <<T("COMMENT_LINE")>>, <<T("COMMENT_BLOCK")>>, <<T("NEWLINE")>> }

CommentContexts ==
    { [pre |-> <<T("INT"), ID("f"), T("LPAREN"), T("RPAREN"), T("LBRACE")>>,
       post |-> <<T("RBRACE")>>],
      [pre |-> <<>>, post |-> <<>>] }

RECURSIVE Flatten(_)
Flatten(seqs) == IF seqs = <<>> THEN <<>> ELSE Head(seqs) \o Flatten(Tail(seqs))

Inputs ==
    UNION {{Spaced(c.pre \o m \o c.post) \o <<T("EOF")>> : m \in Middles(c.alpha)}
           : c \in Contexts}
    \cup
    UNION {{Spaced(c.pre \o Flatten(m) \o c.post) \o <<T("EOF")>>
            : m \in Middles(Phrases)} : c \in BodyContexts}
    \cup
    {Spaced(ExprContext.pre \o Flatten(m) \o ExprContext.post) \o <<T("EOF")>>
     : m \in Middles(ExprPhrases)}
    \cup
    UNION {{Spaced(c.pre \o Flatten(m) \o c.post) \o <<T("EOF")>>
            : m \in Middles(CommentPhrases)} : c \in CommentContexts}

-----------------------------------------------------------------------------
(* Specification *)

Init ==
    /\ tokens \in Inputs
    /\ parser = parser_create
    /\ program = ast_node_create("PROGRAM", NoTok)
    /\ pc = "loop"
    /\ frame = [blank_lines |-> 0, section_start |-> 0, start_errors |-> 0,
                attempt |-> 0]
    /\ output = <<>>
    /\ symtab = NoCall

Next ==
    \/ ProgramEnd
    \/ ParsePreprocessor
    \/ ParseTypedef
    \/ ParseStruct
    \/ ParseEnum
    \/ ParseUnion
    \/ ParseFunction
    \/ GlobalDeclaration
    \/ TopLevelUnparsed
    \/ InitializerSpin
    \/ Format
    \/ FormatSource
    \/ FormatToString
    \/ Relex

Spec == Init /\ [][Next]_vars

-----------------------------------------------------------------------------
(* The symbol table on its own: scopes are created, symbols added to any     *)
(* scope of the chain and names looked up from any scope of the chain.       *)

SymNames == {"a", "b"}

SymKinds == {"SYM_TYPEDEF", "SYM_VARIABLE"}

\* the table of the scope at depth `at` of the chain: that scope and its parents
ScopeAt(table, at) == SubSeq(table, at, Len(table))

SymInit ==
    /\ tokens = <<T("EOF")>>
    /\ parser = parser_create
    /\ program = ast_node_create("PROGRAM", NoTok)
    /\ pc = "symbols"
    /\ frame = [blank_lines |-> 0, section_start |-> 0, start_errors |-> 0,
                attempt |-> 0]
    /\ output = <<>>
    /\ symtab = [NoCall EXCEPT !.table = symbol_table_create(<<>>)]

CreateScope ==
    /\ pc = "symbols"
    /\ Len(symtab.table) < MaxScopes
    /\ symtab' = [NoCall EXCEPT !.table = symbol_table_create(symtab.table),
                                !.op = "create"]
    /\ UNCHANGED <<tokens, parser, program, pc, frame, output>>

AddSymbol ==
    /\ pc = "symbols"
    /\ \E at \in 1..Len(symtab.table), name \in SymNames, kind \in SymKinds :
           symtab' = [table |-> SubSeq(symtab.table, 1, at - 1)
                                \o symbol_add(ScopeAt(symtab.table, at), name, kind),
                      op |-> "add", at |-> at, name |-> name, kind |-> kind,
                      found |-> NoSymbol]
    /\ UNCHANGED <<tokens, parser, program, pc, frame, output>>

LookupSymbol ==
    /\ pc = "symbols"
    /\ \E at \in 1..Len(symtab.table), name \in SymNames :
           symtab' = [table |-> symtab.table,
                      op |-> "lookup", at |-> at, name |-> name, kind |-> "NULL",
                      found |-> symbol_lookup(ScopeAt(symtab.table, at), name)]
    /\ UNCHANGED <<tokens, parser, program, pc, frame, output>>

SymNext ==
    \/ CreateScope
    \/ AddSymbol
    \/ LookupSymbol

SymSpec == SymInit /\ [][SymNext]_vars

-----------------------------------------------------------------------------
(* Properties *)

Returned == pc \in {"done", "formatted"}

\* the recovery log and the rewind log as index sets
RecIndex == 1..Len(parser.recs)

RewindIndex == 1..Len(parser.rewinds)

ChildIndex == 1..Len(program.children)

\* the verbatim text of the tokens [a, b), built from the token array alone
RECURSIVE Verbatim(_, _)
Verbatim(a, b) == IF b <= a THEN "" ELSE Verbatim(a, b - 1) \o tokens[b].lexeme

\* braces opened and not yet closed by the tokens [a, b)
Depth(a, b) ==
    Cardinality({k \in a..(b - 1) : Tok(k).type = "LBRACE"})
    - Cardinality({k \in a..(b - 1) : Tok(k).type = "RBRACE"})

\* C1: parser_parse terminates on every EOF-terminated token array, and the
\* steps of the parser (cursor advances and rounds of its loops) stay within
\* a constant times the token count.
C1_StepsBounded == parser.steps + parser.spins <= StepFactor * token_count

\* C2: once parser_parse has returned, every token that is neither trivia nor
\* EOF lies within the extent of a child of the program node, structurally
\* parsed or unparsed.
C2_TokensRepresented ==
    Returned =>
        \A i \in 0..(token_count - 1) :
            Tok(i).type \notin Trivia \cup {"EOF"} =>
                \E k \in ChildIndex :
                    /\ program.children[k].first <= i
                    /\ i < program.children[k].last

TopLevelKinds ==
    {"FUNCTION", "VAR_DECL", "FUNC_PTR", "STRUCT", "TYPEDEF", "ENUM",
     "PREPROCESSOR", "UNPARSED"}

\* C3: for any token array parser_parse returns: the parse is never caught in
\* a construct it does not leave, and the node it returns is a program node
\* whose children are structurally parsed nodes or unparsed nodes.
C3_ReturnsProgram ==
    /\ pc # "initializer_loop"
    /\ Returned =>
           /\ program.type = "PROGRAM"
           /\ \A k \in ChildIndex : program.children[k].type \in TopLevelKinds

\* C4: the text captured by a recovery is the in-order concatenation of the
\* verbatim text of the tokens from the start index of the failed attempt up
\* to, not including, the cursor at which the recovery stopped.
C4_UnparsedTextVerbatim ==
    \A k \in RecIndex :
        parser.recs[k].text # "" =>
            parser.recs[k].text = Verbatim(parser.recs[k].start, parser.recs[k].stop)

C4_Witness ==
    /\ Returned
    /\ \E k \in RecIndex :
           /\ parser.recs[k].kind = "statement"
           /\ parser.recs[k].stop >= parser.recs[k].start + 3
           /\ parser.recs[k].text # ""

\* C5: the formatter's output contains the captured text of every unparsed
\* node of the tree, verbatim.
C5_UnparsedTextEmitted ==
    pc = "formatted" =>
        \A k \in ChildIndex :
            program.children[k].type = "UNPARSED" =>
                \E j \in 1..Len(output) : output[j] = program.children[k].data.text

\* C6: expected-token mismatches are recorded in the error counter, and the
\* counter read after parser_parse is not zero when a construct failed on a
\* mismatch and was recovered.
C6_CounterSignalsRecovery ==
    (Returned /\ parser.mismatches > 0 /\ parser.recs # <<>>) =>
        parser.error_count > 0

\* C7: a recovery that does not end at the end of input leaves the cursor
\* strictly beyond the cursor at which the attempt to parse the construct
\* began.
C7_RecoveryAdvances ==
    \A k \in RecIndex :
        parser.recs[k].at_end \/ parser.recs[k].stop > parser.recs[k].attempt

\* C8 as stated: the cursor is never assigned a lower position than it has.
C8_CursorNeverDecreases ==
    \A k \in RewindIndex : parser.rewinds[k].to >= parser.rewinds[k].from

\* C8, amended: the cursor is never lower after a round of the loop of
\* parse_program than before it; inside a round a lookahead may put it back
\* to a position saved earlier in that round.  (The step from a formatted
\* text to its second run creates a new parser and is no round of the loop.)
C8_NoDecreaseAcrossRounds ==
    [][pc # "formatted" => parser'.current >= parser.current]_vars

C8_Witness ==
    /\ Returned
    /\ \E k \in RewindIndex : parser.rewinds[k].to < parser.rewinds[k].from

\* the first `{` of the input and the `}` that closes it
FirstBrace ==
    CHOOSE i \in 0..token_count :
        /\ i < token_count => Tok(i).type = "LBRACE"
        /\ \A j \in 0..(i - 1) : Tok(j).type # "LBRACE"

ClosingBrace ==
    CHOOSE i \in FirstBrace..token_count :
        /\ i < token_count => Tok(i).type = "RBRACE" /\ Depth(FirstBrace, i) = 1
        /\ \A j \in (FirstBrace + 1)..(i - 1) :
               ~(Tok(j).type = "RBRACE" /\ Depth(FirstBrace, j) = 1)

\* the input is one function definition `int f() { ... }` whose body is
\* balanced: the `}` closing the body is the last token that is not trivia
FunctionInput ==
    /\ FirstBrace < token_count /\ ClosingBrace < token_count
    /\ Tok(0).type = "INT" /\ Tok(2).lexeme = "f"
    /\ Tok(3).type = "LPAREN" /\ Tok(4).type = "RPAREN" /\ FirstBrace = 5
    /\ \A j \in (ClosingBrace + 1)..(token_count - 1) :
           Tok(j).type \in Trivia \cup {"EOF"}

\* C9: after a statement of a function body was recovered, the statements
\* after it are children of the same body block and the closing brace of the
\* function ends that block.
C9_BodyBlockKept ==
    (/\ Returned /\ FunctionInput
     /\ \E k \in RecIndex : parser.recs[k].kind = "statement") =>
        /\ Len(program.children) = 1
        /\ program.children[1].type = "FUNCTION"
        /\ Len(program.children[1].children) = 1
        /\ program.children[1].children[1].type = "BLOCK"
        /\ program.children[1].children[1].data.closing_brace = ClosingBrace
        /\ \A k \in RecIndex : parser.recs[k].stop <= ClosingBrace

StatementRecs == {k \in RecIndex : parser.recs[k].kind = "statement"}

\* C10 as stated: the scan of recover_statement ends just after the first `;`
\* at brace depth zero or on the first unmatched `}`, whichever comes first
\* (or at the end of input), and at no earlier token.
C10_StopsAtSemicolonOrBrace ==
    \A k \in StatementRecs :
        LET e == parser.recs[k].entry
            s == parser.recs[k].scan_stop
            Boundary(j) ==
                \/ Tok(j).type = "EOF"
                \/ Tok(j).type = "SEMICOLON" /\ Depth(e, j) = 0
                \/ Tok(j).type = "RBRACE" /\ Depth(e, j) = 0
            first == CHOOSE j \in e..(token_count - 1) :
                         Boundary(j) /\ \A i \in e..(j - 1) : ~Boundary(i)
        IN s = IF Tok(first).type = "SEMICOLON" THEN first + 1 ELSE first

\* C10, amended: the scan ends just after the first `;` or newline at brace
\* depth zero, just after the `}` that closes a brace opened during the scan,
\* or on the first unmatched `}` (or at the end of input), whichever comes
\* first, and at no earlier token.
C10_StopsAtStatementBoundary ==
    \A k \in StatementRecs :
        LET e == parser.recs[k].entry
            s == parser.recs[k].scan_stop
            Boundary(j) ==
                \/ Tok(j).type = "EOF"
                \/ Tok(j).type \in {"SEMICOLON", "NEWLINE"} /\ Depth(e, j) = 0
                \/ Tok(j).type = "RBRACE" /\ Depth(e, j) <= 1
            first == CHOOSE j \in e..(token_count - 1) :
                         Boundary(j) /\ \A i \in e..(j - 1) : ~Boundary(i)
        IN s = IF \/ Tok(first).type = "EOF"
                  \/ Tok(first).type = "RBRACE" /\ Depth(e, first) = 0
               THEN first ELSE first + 1

C10_Witness ==
    /\ Returned
    /\ \E k \in StatementRecs :
           /\ parser.recs[k].scan_stop > parser.recs[k].entry
           /\ Tok(parser.recs[k].scan_stop - 1).type = "NEWLINE"

-----------------------------------------------------------------------------
(* Statements and expressions *)

\* the tokens at or after position at that are not trivia, counted from 0
SigCount(at) ==
    Cardinality({j \in at..(token_count - 1) : Tok(j).type \notin Trivia})

SigType(at, n) ==
    IF SigCount(at) <= n THEN "NONE"
    ELSE Tok(CHOOSE k \in at..(token_count - 1) :
                 /\ Tok(k).type \notin Trivia
                 /\ Cardinality({j \in at..(k - 1) :
                                    Tok(j).type \notin Trivia}) = n).type

RouteIndex == 1..Len(parser.routes)

\* the statements of the body blocks of the functions of the program
Statements ==
    UNION {UNION {{b.children[k] : k \in 1..Len(b.children)}
                  : b \in {f.children[j] : j \in 1..Len(f.children)}}
           : f \in {program.children[i] : i \in ChildIndex}}

DeclarationFollowers == {"SEMICOLON", "COMMA", "ASSIGN", "LBRACKET"}

\* C11 as stated: a statement that begins with an identifier goes to the
\* declaration parser exactly when the identifier is a registered typedef
\* name or the tokens are IDENTIFIER, one or more STAR, IDENTIFIER and then one
\* of ; , = [ .
C11_DeclarationIffTypeOrStars ==
    \A k \in RouteIndex :
        LET r == parser.routes[k]
        IN r.declaration <=>
              \/ symbol_is_typedef(r.symbols, Tok(r.at).lexeme)
              \/ \E n \in 1..token_count :
                     /\ \A i \in 1..n : SigType(r.at, i) = "STAR"
                     /\ SigType(r.at, n + 1) = "IDENTIFIER"
                     /\ SigType(r.at, n + 2) \in DeclarationFollowers

\* C11, amended: a statement that begins with an identifier goes to the
\* declaration parser exactly when the identifier is a registered typedef
\* name or the significant tokens are IDENTIFIER, exactly one STAR, IDENTIFIER
\* and then one of ; , = [ (so `a * b;` is a declaration and `a ** b;` is an
\* expression statement); a statement node of the tree that begins with an
\* identifier is a declaration node only if routed there, and an expression
\* statement only if not.
C11_DeclarationIffTypeOrOneStar ==
    /\ \A k \in RouteIndex :
           LET r == parser.routes[k]
           IN r.declaration <=>
                 \/ symbol_is_typedef(r.symbols, Tok(r.at).lexeme)
                 \/ /\ SigType(r.at, 1) = "STAR"
                    /\ SigType(r.at, 2) = "IDENTIFIER"
                    /\ SigType(r.at, 3) \in DeclarationFollowers
    /\ Returned =>
           \A st \in Statements :
               st.type \in {"VAR_DECL", "EXPR_STMT"}
               /\ Tok(st.first).type = "IDENTIFIER"
               => \E k \in RouteIndex :
                      /\ parser.routes[k].at = st.first
                      /\ parser.routes[k].declaration = (st.type = "VAR_DECL")

C11_Witness ==
    /\ Returned
    /\ \E k \in RouteIndex :
           /\ ~parser.routes[k].declaration
           /\ SigType(parser.routes[k].at, 1) = "STAR"
           /\ SigType(parser.routes[k].at, 2) = "STAR"
           /\ \E st \in Statements :
                  /\ st.type = "EXPR_STMT"
                  /\ st.first = parser.routes[k].at
                  /\ st.children[1].type = "BINARY"

\* C12: at top level a struct or enum keyword followed by `{`, by a name and
\* `{`, or by a name and `;` starts a definition; followed by anything else
\* it is taken as the start of a return type and the round is an attempt to
\* parse a function.
C12_TaggedTypeLookahead ==
    [][pc = "loop" /\ PeekType(Iter.p) \in {"STRUCT", "ENUM"}
       => LET at == Iter.p.current
              definition ==
                  \/ SigType(at, 1) = "LBRACE"
                  \/ /\ SigType(at, 1) = "IDENTIFIER"
                     /\ SigType(at, 2) \in {"LBRACE", "SEMICOLON"}
          IN IF definition THEN ParseStruct \/ ParseEnum ELSE ParseFunction]_vars

\* the nodes of the tree below and including node n (children, and the
\* initializer a declaration keeps in its data)
RECURSIVE Subtrees(_)
Subtrees(n) ==
    {n} \cup UNION {Subtrees(n.children[i]) : i \in 1..Len(n.children)}
        \cup (IF n.type = "VAR_DECL" /\ n.data.init_expr.type # "NULL"
              THEN Subtrees(n.data.init_expr) ELSE {})

\* the precedence levels of the binary operators, assignment = 1 up to
\* multiplicative = 11
OperatorLevel(type) ==
    CASE type \in AssignFamily -> 1
      [] type = "LOGICAL_OR" -> 2
      [] type = "LOGICAL_AND" -> 3
      [] type = "PIPE" -> 4
      [] type = "CARET" -> 5
      [] type = "AMPERSAND" -> 6
      [] type \in {"EQUAL", "NOT_EQUAL"} -> 7
      [] type \in {"LESS", "GREATER", "LESS_EQUAL", "GREATER_EQUAL"} -> 8
      [] type \in {"LSHIFT", "RSHIFT"} -> 9
      [] type \in {"PLUS", "MINUS"} -> 10
      [] type \in {"STAR", "SLASH", "PERCENT"} -> 11
      [] OTHER -> 0

\* C13: in the tree of a chain of binary operators (no parentheses between
\* the two operators), a binary node directly below another binary node has
\* a higher precedence than its parent, or the same precedence and then sits
\* on the left unless the operators are assignments, which nest on the
\* right; precedences run from assignment = 1 to multiplicative = 11.
C13_PrecedenceAndAssociativity ==
    LET Level(n) == OperatorLevel(Tok(n.token).type)
        Chained(a, b) ==
            \A k \in a..b : Tok(k).type \notin {"LPAREN", "RPAREN"}
    IN Returned =>
       \A n \in Subtrees(program) :
           n.type = "BINARY" /\ Len(n.children) = 2 =>
               LET l == n.children[1]
                   r == n.children[2]
               IN /\ l.type = "BINARY" /\ Chained(l.token, n.token) =>
                         /\ l.token < n.token
                         /\ \/ Level(l) > Level(n)
                            \/ Level(l) = Level(n) /\ Level(n) # 1
                  /\ r.type = "BINARY" /\ Chained(n.token, r.token) =>
                         /\ n.token < r.token
                         /\ \/ Level(r) > Level(n)
                            \/ Level(r) = Level(n) /\ Level(n) = 1

C13_Witness ==
    /\ Returned
    /\ \E n \in Subtrees(program) :
           /\ n.type = "BINARY" /\ Tok(n.token).type = "PLUS"
           /\ n.children[2].type = "BINARY"
           /\ Tok(n.children[2].token).type = "STAR"
    /\ \E n \in Subtrees(program) :
           /\ n.type = "RETURN"
           /\ n.children[1].type = "BINARY"

\* C14: for a ternary `c ? t : e` written without parentheses, the
\* then-branch is everything between the `?` and the `:` before the
\* else-branch, whatever operators it holds (a full expression); the
\* else-branch is parsed at the minimum precedence in force where the ternary
\* stands, so below the right operand of a binary operator it holds only
\* operators that bind tighter than that operator, and at the top of a return
\* or expression statement it holds every operator that follows; and the
\* ternary groups to the right, so its condition is never itself a complete
\* ternary.
C14_TernaryBranches ==
    LET Toks(n) == {m.token : m \in Subtrees(n)} \ {NoTok}
        Lo(n) == CHOOSE k \in Toks(n) : \A j \in Toks(n) : k <= j
        Hi(n) == CHOOSE k \in Toks(n) : \A j \in Toks(n) : k >= j
        Plain(a, b) ==
            \A k \in a..b :
                \/ Tok(k).type \in Trivia \cup {"IDENTIFIER", "INTEGER",
                                                 "QUESTION", "COLON"}
                \/ OperatorLevel(Tok(k).type) > 0
        Whole(n) == n.type = "TERNARY" /\ Len(n.children) = 3
                    /\ Plain(Lo(n), Hi(n))
        Ambient(parent) ==
            IF Tok(parent.token).type \in AssignFamily
            THEN OperatorLevel(Tok(parent.token).type)
            ELSE OperatorLevel(Tok(parent.token).type) + 1
    IN Returned =>
       /\ \A n \in Subtrees(program) :
              Whole(n) =>
                  LET c == n.children[1]
                      t == n.children[2]
                      e == n.children[3]
                  IN /\ Hi(c) < n.token
                     /\ {k \in (n.token + 1)..(Lo(e) - 1) :
                            Tok(k).type \notin Trivia \cup {"COLON"}} = Toks(t)
                     /\ \E k \in (Hi(t) + 1)..(Lo(e) - 1) :
                            /\ Tok(k).type = "COLON"
                            /\ \A j \in (k + 1)..(Lo(e) - 1) :
                                   Tok(j).type \in Trivia
                     /\ ~Whole(c)
       /\ \A parent \in Subtrees(program) :
              /\ parent.type = "BINARY" /\ Len(parent.children) = 2
              /\ Whole(parent.children[2])
              /\ parent.children[2].children[3].type = "BINARY"
              => OperatorLevel(Tok(parent.children[2].children[3].token).type)
                     >= Ambient(parent)
       /\ \A parent \in Subtrees(program) :
              /\ parent.type \in {"RETURN", "EXPR_STMT"}
              /\ Len(parent.children) = 1
              /\ Whole(parent.children[1])
              => SigType(Hi(parent.children[1]) + 1, 0) \notin
                     {"QUESTION"} \cup {ty \in {Tok(k).type : k \in 0..(token_count - 1)} :
                                            OperatorLevel(ty) > 0}

C14_Witness ==
    /\ Returned
    /\ \E n \in Subtrees(program) :
           /\ n.type = "TERNARY" /\ Len(n.children) = 3
           /\ n.children[3].type = "TERNARY"
           /\ Len(n.children[3].children) = 3
           /\ \A k \in 1..3 : n.children[3].children[k].type = "IDENTIFIER"
           /\ \E parent \in Subtrees(program) :
                  parent.type = "RETURN" /\ parent.children = <<n>>

\* C15: `sizeof( X )` is kept as a type payload with no expression child
\* exactly when every token of X is a token of the type grammar: a type
\* keyword, a struct, enum or union tag, an identifier registered as a
\* typedef, a pointer star or an array bracket (with its size); otherwise X
\* is an expression child of the sizeof node.
C15_SizeofTypeIffTypeTokens ==
    LET TypeToken(k) ==
            \/ Tok(k).type \in Trivia
            \/ Tok(k).type \in {"INT", "VOID", "CHAR_KW", "LONG", "SHORT",
                                "FLOAT_KW", "DOUBLE", "UNSIGNED", "SIGNED",
                                "CONST", "VOLATILE", "STRUCT", "ENUM", "UNION",
                                "STAR", "LBRACKET", "RBRACKET"}
            \/ Tok(k).type = "IDENTIFIER" /\ symbol_is_typedef(parser.symbols, Tok(k).lexeme)
            \/ Tok(k).type = "INTEGER" /\ k > 0 /\ Tok(k - 1).type = "LBRACKET"
    IN Returned =>
       \A n \in Subtrees(program) :
           n.type = "SIZEOF" /\ SigType(n.token + 1, 0) = "LPAREN" =>
               LET open == CHOOSE k \in (n.token + 1)..(token_count - 1) :
                               /\ Tok(k).type = "LPAREN"
                               /\ \A j \in (n.token + 1)..(k - 1) :
                                      Tok(j).type # "LPAREN"
                   close == CHOOSE k \in (open + 1)..(token_count - 1) :
                                /\ Tok(k).type \in {"RPAREN", "EOF"}
                                /\ \A j \in (open + 1)..(k - 1) :
                                       Tok(j).type # "RPAREN"
               IN (Len(n.children) = 0)
                      <=> \A k \in (open + 1)..(close - 1) : TypeToken(k)

-----------------------------------------------------------------------------
(* Blank lines in the formatted text *)

\* C20: two consecutive preprocessor directives are each emitted verbatim and
\* no blank line is inserted between them: in the formatted text the second
\* follows the line break of the first directly
C20_DirectivesStayAdjacent ==
    pc \in {"formatted", "printed"} =>
        \A i \in 1..Len(tokens) :
            (/\ i + 2 <= Len(tokens)
             /\ tokens[i].type = "PREPROCESSOR"
             /\ tokens[i + 1].type = "NEWLINE"
             /\ tokens[i + 2].type = "PREPROCESSOR") =>
                \E j \in 1..Len(output) :
                    /\ j + 2 <= Len(output)
                    /\ output[j] = tokens[i].lexeme
                    /\ output[j + 1] = "\n"
                    /\ output[j + 2] = tokens[i + 2].lexeme

\* C16: formatting is a fixed point: the text the formatter wrote, lexed,
\* parsed and formatted again, comes out byte for byte the same
C16_FormatIsFixedPoint ==
    [][(pc = "done" /\ pc' = "reformatted") => output' = output]_vars

\* the blank lines before each line of text that is not blank, in the order of
\* the lines: text[i..] read with `pending` blank lines seen since the last line
RECURSIVE BlankLinesBefore(_, _, _, _)
BlankLinesBefore(text, i, at_line_start, pending) ==
    IF i > Len(text) THEN <<>>
    ELSE IF text[i] = "\n"
    THEN BlankLinesBefore(text, i + 1, TRUE, IF at_line_start THEN pending + 1 ELSE 0)
    ELSE IF at_line_start
    THEN <<pending>> \o BlankLinesBefore(text, i + 1, FALSE, 0)
    ELSE BlankLinesBefore(text, i + 1, FALSE, 0)

IsDeclaration(stmt) == stmt.type \in {"VAR_DECL", "FUNC_PTR"}

\* the blocks of a formatted program whose statements each take one line, with
\* the number of lines of text before the first statement: the body of a
\* function that is the whole program, and a block that opens that body
LineBlocks ==
    IF pc \in {"formatted", "reformatted"} /\ Len(program.children) = 1
       /\ program.children[1].type = "FUNCTION"
    THEN LET body == program.children[1].children[1]
             OneLine(b) == \A j \in 1..Len(b.children) :
                               /\ b.children[j].type \in {"VAR_DECL", "EXPR_STMT"}
                               /\ b.children[j].leading_comments = <<>>
         IN  (IF OneLine(body) THEN {[block |-> body, before |-> 2]} ELSE {})
             \cup
             (IF Len(body.children) > 0 /\ body.children[1].type = "BLOCK"
                 /\ OneLine(body.children[1])
              THEN {[block |-> body.children[1], before |-> 3]} ELSE {})
    ELSE {}

\* the line breaks of the source between statement j - 1 and statement j
NewlinesBefore(block, j) ==
    Cardinality({k \in block.children[j - 1].last..(block.children[j].first - 1) :
                     Tok(k).type = "NEWLINE"})

\* statement j is the first statement of the block that follows a declaration
\* and is none itself
IsTransition(block, j) ==
    /\ ~IsDeclaration(block.children[j])
    /\ \E i \in 1..(j - 1) : IsDeclaration(block.children[i])
    /\ \A k \in 1..(j - 1) :
           IsDeclaration(block.children[k])
           \/ ~\E i \in 1..(k - 1) : IsDeclaration(block.children[i])

\* C18: where the source has two or more blank lines before a top-level or
\* block-level construct, the formatted text has exactly one blank line there
C18_BlankLinesCollapseToOne ==
    /\ \A lb \in LineBlocks :
           \A j \in 2..Len(lb.block.children) :
               NewlinesBefore(lb.block, j) >= 3 =>
                   BlankLinesBefore(output, 1, TRUE, 0)[lb.before + j] = 1
    /\ (/\ pc = "formatted"
        /\ \A i \in 1..Len(program.children) :
               program.children[i].type = "PREPROCESSOR")
       => \A i \in 2..Len(program.children) :
              NewlinesBefore(program, i) >= 3 =>
                  BlankLinesBefore(output, 1, TRUE, 0)[i] = 1

-----------------------------------------------------------------------------
(* Return statements, comments and grouping in the formatted text *)

\* the formatted program is one function whose body is one return statement
OnlyReturn ==
    /\ pc = "formatted"
    /\ Len(program.children) = 1
    /\ program.children[1].type = "FUNCTION"
    /\ Len(program.children[1].children[1].children) = 1
    /\ program.children[1].children[1].children[1].type = "RETURN"
    /\ program.children[1].children[1].children[1].leading_comments = <<>>
    /\ program.children[1].children[1].children[1].trailing_comments = <<>>

\* C21: a return statement with a value is emitted as `return (expr);` with
\* exactly one added pair of parentheses, around the value; a return statement
\* without a value is emitted as `return;` with none
C21_ReturnParenthesised ==
    OnlyReturn =>
        LET n == Len(output)
            ret == program.children[1].children[1].children[1]
        IN  /\ SubSeq(output, 1, 11)
               = <<"int", " ", "f", "(", "void", ")", "\n", "{", "\n", "\t", "return">>
            /\ IF ret.children = <<>>
               THEN SubSeq(output, 12, n) = <<";", "\n", "}", "\n">>
               ELSE /\ output[12] = " ("
                    /\ n >= 18
                    /\ SubSeq(output, n - 4, n) = <<")", ";", "\n", "}", "\n">>
                    /\ \A k \in 13..(n - 5) : output[k] \notin {"(", ")", " ("}

\* a formatted return statement whose value the source wrote in parentheses
C21_Witness ==
    /\ OnlyReturn
    /\ tokens[8].type = "LPAREN"
    /\ LET ret == program.children[1].children[1].children[1]
       IN  /\ Len(ret.children) = 1
           /\ ret.children[1].type = "BINARY"
           /\ \A i \in 1..2 : ret.children[1].children[i].type = "IDENTIFIER"
    /\ SubSeq(output, 12, 18) = <<" (", "a", " ", "+", " ", "b", ")">>

-----------------------------------------------------------------------------
(* Symbol table *)

\* the names a parse can ask the symbol table about
ParseNames == PreseededTypedefs \cup {tokens[k].lexeme : k \in 1..Len(tokens)}

\* C22: a name registered as a typedef stays a typedef for the rest of the
\* parse: no step of the parser removes or overwrites its binding
C22_TypedefsPersist ==
    [][pc # "formatted" =>
          \A name \in ParseNames :
              symbol_is_typedef(parser.symbols, name)
              => symbol_is_typedef(parser'.symbols, name)]_vars

\* a parse that registered a typedef name of its own and went on to the end
C22_Witness ==
    /\ Returned
    /\ \E k \in 1..Len(tokens) :
           /\ tokens[k].type = "IDENTIFIER"
           /\ tokens[k].lexeme \notin PreseededTypedefs
           /\ symbol_is_typedef(parser.symbols, tokens[k].lexeme)
           /\ \E j \in (k + 1)..Len(tokens) : tokens[j].lexeme = tokens[k].lexeme

\* C23: adding a name that its scope already binds leaves the table unchanged,
\* whatever the kind given, so no lookup from any scope changes its answer
C23_AddIsIdempotent ==
    [][(/\ symtab'.op = "add"
        /\ \E sym \in symtab.table[symtab'.at] : sym.name = symtab'.name)
       => /\ symtab'.table = symtab.table
          /\ \A at \in 1..Len(symtab.table), name \in SymNames :
                 symbol_lookup(ScopeAt(symtab'.table, at), name)
                 = symbol_lookup(ScopeAt(symtab.table, at), name)]_vars

\* a name was added again with another kind and its scope kept the first kind
C23_Witness ==
    /\ symtab.op = "add"
    /\ \E sym \in symtab.table[symtab.at] :
           sym.name = symtab.name /\ sym.kind # symtab.kind

\* C24: symbol_lookup returns the binding of the nearest scope of the chain,
\* from the given scope outwards, that binds the name, and nothing when none
\* does
C24_LookupNearestScope ==
    symtab.op = "lookup" =>
        LET binders == {d \in symtab.at..Len(symtab.table) :
                           \E sym \in symtab.table[d] : sym.name = symtab.name}
        IN  IF binders = {} THEN symtab.found = NoSymbol
            ELSE LET nearest == CHOOSE d \in binders : \A e \in binders : d <= e
                 IN  /\ symtab.found \in symtab.table[nearest]
                     /\ symtab.found.name = symtab.name

\* a lookup that passed a scope without the name, found it in the parent, and
\* a farther scope binds the name with another kind
C24_Witness ==
    /\ symtab.op = "lookup"
    /\ symtab.at = 1
    /\ Len(symtab.table) = 3
    /\ ~\E sym \in symtab.table[1] : sym.name = symtab.name
    /\ symtab.found \in symtab.table[2]
    /\ symtab.found.name = symtab.name
    /\ \E sym \in symtab.table[3] :
           sym.name = symtab.name /\ sym.kind # symtab.found.kind

-----------------------------------------------------------------------------
(* Comments *)

\* the comments after the last token of node n and on its line, with nothing
\* but blanks and comments between
CommentsAfter(n) ==
    LET sig == {j \in n.first..(n.last - 1) : Tok(j).type \notin Trivia}
        last_token == CHOOSE j \in sig : \A i \in sig : i <= j
    IN  IF sig = {} THEN {}
        ELSE {k \in (last_token + 1)..(token_count - 1) :
                  /\ Tok(k).type \in {"COMMENT_LINE", "COMMENT_BLOCK"}
                  /\ LineOf(k) = LineOf(last_token)
                  /\ \A j \in (last_token + 1)..(k - 1) :
                         Tok(j).type \in {"WHITESPACE", "COMMENT_LINE",
                                          "COMMENT_BLOCK"}}

\* the comment tokens a node of the set carries as (leading or trailing) comments
Carried(nodes, field) ==
    UNION {{n[field][i] : i \in 1..Len(n[field])} : n \in nodes}

\* the parsed statements and declarations under the nodes of the given kinds
ParsedUnder(kinds) ==
    UNION {{parent.children[i] : i \in 1..Len(parent.children)}
           : parent \in {m \in Subtrees(program) : m.type \in kinds}}
    \ {m \in Subtrees(program) : m.type = "UNPARSED"}

\* C25: a comment after a parsed statement or declaration, on the line of its
\* last token, is a trailing comment of that statement (or of the statement
\* that ends it) and no leading comment of any node
C25_SameLineCommentTrails ==
    Returned =>
        \A n \in ParsedUnder({"PROGRAM", "BLOCK"}) :
            \A k \in CommentsAfter(n) :
                /\ k \in Carried(Subtrees(n), "trailing_comments")
                /\ k \notin Carried(Subtrees(program), "leading_comments")

-----------------------------------------------------------------------------
(* Comments on output *)

\* how many pieces of the text are the string s
Pieces(text, s) == Cardinality({i \in 1..Len(text) : text[i] = s})

\* how many tokens of the input have the type
TokensOf(type) == Cardinality({i \in 1..Len(tokens) : tokens[i].type = type})

\* C26: in the text either formatter writes, every line comment of the input
\* appears as a block comment (its text between an opening and a closing
\* mark, never behind two slashes) and every block comment appears verbatim.
C26_LineCommentsBecomeBlock ==
    pc \in {"formatted", "streamed"} =>
        /\ \A i \in 1..Len(tokens) :
               tokens[i].type = "COMMENT_LINE" => Pieces(output, tokens[i].lexeme) = 0
        /\ Pieces(output, "/*") = TokensOf("COMMENT_LINE")
        /\ Pieces(output, Lexeme("COMMENT_BLOCK")) = TokensOf("COMMENT_BLOCK")

-----------------------------------------------------------------------------
(* The token-stream formatter keeps the tokens *)

\* the pieces of the text that are not a space, a tab or a line break
NonBlank(text) == SelectSeq(text, LAMBDA s : s \notin {" ", "\t", "\n"})

\* the lexemes of the tokens that are neither whitespace nor a line break
SignificantLexemes(toks) ==
    LET sig == SelectSeq(toks, LAMBDA t : t.type \notin {"WHITESPACE", "NEWLINE"}
                                          /\ t.lexeme # "")
    IN  [i \in 1..Len(sig) |-> sig[i].lexeme]

-----------------------------------------------------------------------------
(* Grouping of operands across a round of formatting *)

\* the kinds and lexemes of the nodes of a tree, and how many nodes it has
RECURSIVE NodesOf(_)
NodesOf(shape) ==
    {[type |-> shape.type, lexeme |-> shape.lexeme]}
    \cup UNION {NodesOf(shape.children[i]) : i \in 1..Len(shape.children)}

RECURSIVE SizeOf(_)
SizeOf(shape) ==
    IF Len(shape.children) = 0 THEN 1
    ELSE 1 + SizeOf(shape.children[1])
           + SizeOf([shape EXCEPT !.children = Tail(@)]) - 1

\* C27: when the formatted text is parsed again and the second tree is made
\* of the same operators and operands as the first, the two trees are the
\* same: every operator keeps the operands the source gave it.
C27_GroupingSurvivesFormatting ==
    (/\ pc = "done"
     /\ parser.round_one.type = "PROGRAM"
     /\ NodesOf(Shape(program)) = NodesOf(parser.round_one)
     /\ SizeOf(Shape(program)) = SizeOf(parser.round_one))
    => Shape(program) = parser.round_one

-----------------------------------------------------------------------------
(* The ternary operator and the binary operators *)

\* C29: in an expression without parentheses, no binary operator other than
\* an assignment takes a ternary as its right operand: in `a op b ? c : d`
\* the ternary is above the operator and its condition is all of `a op b`.
C29_TernaryLooserThanBinary ==
    LET Toks(n) == {m.token : m \in Subtrees(n)} \ {NoTok}
        Lo(n) == CHOOSE k \in Toks(n) : \A j \in Toks(n) : k <= j
        Hi(n) == CHOOSE k \in Toks(n) : \A j \in Toks(n) : k >= j
        Plain(n) ==
            \A k \in Lo(n)..Hi(n) :
                \/ Tok(k).type \in Trivia \cup {"IDENTIFIER", "INTEGER",
                                                 "QUESTION", "COLON"}
                \/ OperatorLevel(Tok(k).type) > 0
    IN Returned =>
       \A s \in Subtrees(program) :
           /\ s.type \in {"RETURN", "EXPR_STMT"}
           /\ Len(s.children) = 1
           /\ Toks(s.children[1]) # {}
           /\ Plain(s.children[1])
           => \A n \in Subtrees(s.children[1]) :
                  /\ n.type = "BINARY"
                  /\ Len(n.children) = 2
                  /\ Tok(n.token).type \notin AssignFamily
                  => n.children[2].type # "TERNARY"

-----------------------------------------------------------------------------
(* The error counter across a recovery *)

\* C28: every recovery on record (top-level, statement, struct or union
\* member, enum entry) left the error counter at the value it had when the
\* attempt that failed began.
C28_RecoveryRestoresCounter ==
    \A k \in 1..Len(parser.recs) :
        /\ parser.recs[k].errors_start # NoTok
        /\ parser.recs[k].errors_after = parser.recs[k].errors_start

\* a statement that met an expected-token mismatch was recovered, and the
\* parse ended with the counter where it began
C28_Witness ==
    /\ pc = "done"
    /\ parser.mismatches > 0
    /\ \E k \in 1..Len(parser.recs) :
           /\ parser.recs[k].kind = "statement"
           /\ parser.recs[k].errors_after = parser.recs[k].errors_start
    /\ \E k \in 1..Len(parser.recs) : parser.recs[k].kind = "top_level"
    /\ parser.error_count = 0

====
